---- MODULE Spec2Model ----
(***************************************************************************)
(* Per-wallet analysis pipeline of meteora-wallet-metrics.                 *)
(*                                                                         *)
(* The model follows the bot pipeline of meteora-telegram-bot-v3.py:       *)
(* process_wallets_for_user runs one WalletProcessor per submitted wallet, *)
(* and WalletProcessor.process runs the eight stages in sequence.  The     *)
(* external collaborators (asset search, signature listing, transaction    *)
(* fetch, fee lookup) answer nondeterministically.                         *)
(***************************************************************************)
EXTENDS Integers, Sequences, FiniteSets, TLC

(***************************************************************************)
(* Bounds of the model.                                                    *)
(***************************************************************************)
\* longest signature list the listing RPC returns for the rich wallet
MaxSigs == 2
\* longest batch of wallets submitted in one request
MaxWallets == 2
\* longest item list the asset search returns
MaxItems == 2
\* most RPC URLs and most Helius keys the two endpoint files hold
MaxKeys == 2
\* most calls of get_endpoints_for_user in a run of the endpoint manager
MaxLookups == 4

(***************************************************************************)
(* Program constants.                                                      *)
(***************************************************************************)
METEORA_PROGRAM_ID == "LBUZKhRxPF3XUpBCjp4YzTKgLccjZhTSDM9YuVaPwxo"
OTHER_PROGRAM_ID == "11111111111111111111111111111111"
\* max_retries of check_cnft
max_retries == 3
\* index of the pool account in the instruction's account list
PoolAccountIndex == 2
\* fees are counted in thousandths of a dollar: 0.01 USD is 10
FeeThreshold == 10
SecondsPerDay == 86400

(***************************************************************************)
(* Generic helpers.                                                        *)
(***************************************************************************)
Range(s) == {s[i] : i \in DOMAIN s}

\* all sequences over S of length at most n without repeated elements
RECURSIVE InjSeqs(_, _)
InjSeqs(S, n) ==
    IF n = 0 THEN {<<>>}
    ELSE LET shorter == InjSeqs(S, n - 1)
         IN  shorter \cup {Append(q, x) : <<q, x>> \in
                              {<<q, x>> \in shorter \X S : x \notin Range(q)}}

\* all sequences over S of length at most n
RECURSIVE SeqsUpTo(_, _)
SeqsUpTo(S, n) ==
    IF n = 0 THEN {<<>>}
    ELSE LET shorter == SeqsUpTo(S, n - 1)
         IN  shorter \cup {Append(q, x) : <<q, x>> \in shorter \X S}

\* all orderings of a finite set as sequences
Permutations_dup(S) ==
    {p \in [1..(Cardinality(S) + 1) -> S] : {p[k] : k \in DOMAIN p} = S}
Permutations_(S) == {q \in InjSeqs(S, Cardinality(S)) : Len(q) = Cardinality(S)}

RECURSIVE SeqMin(_)
SeqMin(s) ==
    IF Len(s) = 1 THEN s[1]
    ELSE LET m == SeqMin(Tail(s)) IN IF s[1] < m THEN s[1] ELSE m

(***************************************************************************)
(* Calendar: datetime.utcfromtimestamp, date.isocalendar and strftime.     *)
(***************************************************************************)
IsLeap(y) == (y % 4 = 0) /\ ((y % 100 # 0) \/ (y % 400 = 0))

DaysInMonth(y, m) ==
    IF m = 2 THEN (IF IsLeap(y) THEN 29 ELSE 28)
    ELSE IF m \in {4, 6, 9, 11} THEN 30 ELSE 31

\* days from 1970-01-01 to the first of January of year y (y >= 1970)
RECURSIVE DaysBeforeYear(_)
DaysBeforeYear(y) ==
    IF y <= 1970 THEN 0
    ELSE DaysBeforeYear(y - 1) + (IF IsLeap(y - 1) THEN 366 ELSE 365)

RECURSIVE DaysBeforeMonth(_, _)
DaysBeforeMonth(y, m) ==
    IF m <= 1 THEN 0 ELSE DaysBeforeMonth(y, m - 1) + DaysInMonth(y, m - 1)

\* day number (1970-01-01 is day 0) of a calendar date
DaysFromCivil(y, m, d) == DaysBeforeYear(y) + DaysBeforeMonth(y, m) + (d - 1)

\* calendar date of a day number, by the era/day-of-era computation
CivilFromDays(z0) ==
    LET z   == z0 + 719468
        era == z \div 146097
        doe == z - era * 146097
        yoe == (doe - (doe \div 1460) + (doe \div 36524) - (doe \div 146096)) \div 365
        doy == doe - (365 * yoe + (yoe \div 4) - (yoe \div 100))
        mp  == (5 * doy + 2) \div 153
        d   == doy - ((153 * mp + 2) \div 5) + 1
        m   == IF mp < 10 THEN mp + 3 ELSE mp - 9
        y   == yoe + era * 400 + (IF m <= 2 THEN 1 ELSE 0)
    IN  [year |-> y, month |-> m, day |-> d]

\* datetime.utcfromtimestamp(ts), reduced to its calendar date
utcfromtimestamp(ts) == CivilFromDays(ts \div SecondsPerDay)

\* day number of the Monday that starts ISO week 1 of a year
isoweek1monday(year) ==
    LET firstday     == DaysFromCivil(year, 1, 1)
        firstweekday == (firstday + 3) % 7      \* Monday is 0; day 0 is a Thursday
        week1monday  == firstday - firstweekday
    IN  IF firstweekday > 3 THEN week1monday + 7 ELSE week1monday

\* date.isocalendar(): <<ISO year, ISO week>>
isocalendar(date) ==
    LET today == DaysFromCivil(date.year, date.month, date.day)
        w1    == isoweek1monday(date.year)
    IN  IF today < w1
        THEN <<date.year - 1, ((today - isoweek1monday(date.year - 1)) \div 7) + 1>>
        ELSE IF (today - w1) \div 7 >= 52 /\ today >= isoweek1monday(date.year + 1)
             THEN <<date.year + 1, 1>>
             ELSE <<date.year, ((today - w1) \div 7) + 1>>

DigitChars == <<"0", "1", "2", "3", "4", "5", "6", "7", "8", "9">>
Digit(n) == DigitChars[n + 1]

\* strftime('%d.%m.%Y') as the sequence of its characters
strftime(date) ==
    << Digit(date.day \div 10), Digit(date.day % 10), ".",
       Digit(date.month \div 10), Digit(date.month % 10), ".",
       Digit(date.year \div 1000), Digit((date.year \div 100) % 10),
       Digit((date.year \div 10) % 10), Digit(date.year % 10) >>

\* the sentinel 'N/A' as the sequence of its characters
NA == <<"N", "/", "A">>

(***************************************************************************)
(* The external world: wallets, the ledger, assets, fee answers.           *)
(***************************************************************************)
\* WBad and WJunk do not parse as a public key; WBlack and WJunk are in the
\* blacklist file
Wallets == {"WRich", "WBlack", "WBad", "WJunk"}
SmallWallets == {"WBlack", "WBad", "WJunk"}

\* the address column of the blacklist file: a cell is a sequence of chunks,
\* " " for a blank and a word without blanks otherwise
BLACKLIST_FILE ==
    {<<" ", "WBlack", " ">>, <<"WListed">>, <<"WJunk", " ">>}

\* str.strip(): the cell without its leading and trailing blanks
RECURSIVE lstrip(_)
lstrip(cell) ==
    IF cell # <<>> /\ Head(cell) = " " THEN lstrip(Tail(cell)) ELSE cell
Reverse(cell) == [k \in DOMAIN cell |-> cell[Len(cell) + 1 - k]]
strip_none(cell) == cell
strip(cell) == Reverse(lstrip(Reverse(lstrip(cell))))

\* the set load_blacklist() returns for the rows of a file
load_blacklist(rows) == {strip(cell) : cell \in rows}

\* the set loaded when the module is imported
BLACKLIST == load_blacklist(BLACKLIST_FILE)

\* wallet_address in BLACKLIST: a submitted address is one word
in_blacklist(w) == <<w>> \in BLACKLIST

\* Pubkey.from_string succeeds
ParsesAsPubkey_any(w) == TRUE
ParsesAsPubkey(w) == w \notin {"WBad", "WJunk"}

\* the batches a user submits
Batches ==
    {<<"WRich">>} \cup (SeqsUpTo(SmallWallets, MaxWallets) \ {<<>>})

\* an instruction of a jsonParsed transaction: form is "partial" for a
\* UiPartiallyDecodedInstruction and "parsed" for a fully decoded one
Instr(form, program, accounts) ==
    [form |-> form, program_id |-> program, accounts |-> accounts]

\* block_time of a signature whose block time is None
NoBlockTime == 0

\* the ledger: block time and top-level instructions of every signature
Chain ==
    [ sigA |-> [block_time |-> 1650000000,      \* 15.04.2022
                instructions |->
                  << Instr("partial", METEORA_PROGRAM_ID, <<"acc0", "acc1", "pool1">>) >>],
      sigB |-> [block_time |-> 1700000000,      \* 14.11.2023, week 46
                instructions |->
                  << Instr("parsed", OTHER_PROGRAM_ID, <<>>),
                     Instr("partial", METEORA_PROGRAM_ID, <<"acc0", "acc1", "pool2">>) >>],
      sigC |-> [block_time |-> 1735646400,      \* 31.12.2024
                instructions |->
                  << Instr("partial", OTHER_PROGRAM_ID, <<"acc0", "acc1", "pool3">>) >>],
      sigD |-> [block_time |-> 1609459200,      \* 01.01.2021
                instructions |->
                  << Instr("parsed", METEORA_PROGRAM_ID, <<>>) >>],
      sigE |-> [block_time |-> 1698796799,      \* 31.10.2023 23:59:59, week 44
                instructions |->
                  << Instr("partial", METEORA_PROGRAM_ID, <<"acc0", "acc1">>) >>],
      sigF |-> [block_time |-> 1698796800,      \* 01.11.2023 00:00:00, week 44
                instructions |->
                  << Instr("partial", METEORA_PROGRAM_ID, <<"acc0", "acc1", "pool2">>),
                     Instr("partial", METEORA_PROGRAM_ID, <<"acc0", "acc1", "pool3">>) >>],
      sigG |-> [block_time |-> NoBlockTime,
                instructions |->
                  << Instr("partial", METEORA_PROGRAM_ID, <<"acc0", "acc1", "pool1">>) >>] ]

Sigs == DOMAIN Chain

\* the signature lists get_signatures_for_address may return for a wallet
History(w) ==
    IF w = "WRich" THEN InjSeqs(Sigs, MaxSigs)
    ELSE InjSeqs({"sigA"}, 1)

\* outcome of one get_transaction call: a transaction, a null value, or an
\* exception (transport error, or a decode error while reading the result)
FetchOutcomes == {"ok", "null", "error"}

\* answers of the fee endpoint: a failed request, the field absent, a value
\* float() rejects, or a number (in thousandths of a dollar)
FeeAnswer(kind, value) == [kind |-> kind, value |-> value]

\* the answers the endpoint may give for a pool
FeeResponses(pool) ==
    {FeeAnswer("error", 0)} \cup
    CASE pool = "pool1" -> {FeeAnswer("absent", 0), FeeAnswer("value", 20)}
      [] pool = "pool2" -> {FeeAnswer("malformed", 0), FeeAnswer("value", 0),
                            FeeAnswer("value", 10)}
      [] OTHER          -> {FeeAnswer("value", 9), FeeAnswer("value", 5000)}

\* an asset of the search result.  creators, c_creators (content.creators):
\* "absent", "null", "other" (a list without the known creator), "match".
\* content, metadata: "absent", "null", "dict".  m_name (content.metadata.
\* name), name, c_name (content.name): "absent", "null", "other", "match".
\* keyword: str(content).lower() contains "meteora".
Asset(creators, content, c_creators, metadata, m_name, name, c_name, keyword) ==
    [creators |-> creators, content |-> content, c_creators |-> c_creators,
     metadata |-> metadata, m_name |-> m_name, name |-> name,
     c_name |-> c_name, keyword |-> keyword]

Assets ==
    { \* the certificate in its standard shape
      Asset("match", "dict", "absent", "dict", "match", "absent", "absent", TRUE),
      \* an unrelated asset
      Asset("other", "dict", "absent", "dict", "other", "absent", "absent", FALSE),
      \* creator at content.creators, name at the top level
      Asset("absent", "dict", "match", "absent", "absent", "match", "absent", FALSE),
      \* creator only, no content
      Asset("match", "absent", "absent", "absent", "absent", "absent", "absent", FALSE),
      \* creator only at content.creators
      Asset("other", "dict", "match", "dict", "other", "absent", "absent", FALSE),
      \* name only
      Asset("other", "dict", "other", "dict", "match", "absent", "absent", TRUE),
      \* keyword only
      Asset("absent", "dict", "absent", "dict", "other", "absent", "absent", TRUE),
      \* creator only at content.creators, keyword in the content
      Asset("other", "dict", "match", "dict", "other", "absent", "absent", TRUE),
      \* creator and keyword, name elsewhere
      Asset("match", "dict", "absent", "dict", "other", "absent", "other", TRUE),
      \* a null name
      Asset("other", "dict", "absent", "dict", "null", "absent", "absent", FALSE),
      \* a null creators list
      Asset("null", "absent", "absent", "absent", "absent", "other", "absent", FALSE),
      \* a null content
      Asset("other", "null", "absent", "absent", "absent", "absent", "absent", FALSE) }

\* answers of the asset search: a transport or HTTP error, an error payload,
\* a payload without result or without result.items, a payload whose shape
\* makes the scan raise a TypeError, or an item list
NoData == [kind |-> "none", items |-> <<>>]
\* the item lists the search may return for a wallet; a string that is no
\* address owns no asset
Owned(w) ==
    IF w = "WRich" THEN SeqsUpTo(Assets, MaxItems)
    ELSE IF ~ParsesAsPubkey(w) THEN {<<>>}
    ELSE SeqsUpTo({a \in Assets : a.m_name \in {"match", "null"}}, 1)

AssetResponses(w) ==
    {[kind |-> k, items |-> <<>>] :
        k \in {"request_error", "api_error", "no_result", "no_items", "bad_shape"}}
    \cup {[kind |-> "items", items |-> q] : q \in Owned(w)}

(***************************************************************************)
(* TaskProgress.                                                           *)
(***************************************************************************)
TaskNames ==
    << "check_blacklist", "check_cnft", "get_transactions",
       "filter_meteora_transactions", "process_timestamps",
       "calculate_activity_metrics", "extract_pool_address", "get_pool_fees" >>

\* the tasks whose counters update_progress displays
DisplayedTasks ==
    {"filter_meteora_transactions", "extract_pool_address", "get_pool_fees"}

NewTask_running == [status |-> "running", current |-> 0, total |-> 0]
NewTask == [status |-> "idle", current |-> 0, total |-> 0]

\* TaskProgress.start() without a total, and with one
start(t) == [t EXCEPT !.status = "running"]
start_total(t, n) == [t EXCEPT !.status = "running", !.total = n]
update_remaining(t, c) == [t EXCEPT !.current = t.total - c]
update(t, c) == [t EXCEPT !.current = c]
complete_forgotten(t) == t
complete_thenIdle(t) == [t EXCEPT !.status = "idle", !.current = t.total]
complete(t) == [t EXCEPT !.status = "completed", !.current = t.total]
\* a handler that forgets to record the failure
fail_forgotten(t) == t
fail(t) == [t EXCEPT !.status = "failed"]

Terminal == {"completed", "failed"}

\* TaskProgress.percent: int((current / total) * 100), which for the totals
\* of the model is the integer quotient
percent(t) == IF t.total <= 0 THEN 0 ELSE (t.current * 100) \div t.total

\* the text update_progress hands to the callback: empty when no task runs,
\* else a header and one line per running task that is displayed
ProgressMessage(tk) ==
    LET running(n) == tk[n].status = "running"
        shown(n)   == running(n) /\ n \in DisplayedTasks
    IN  [header |-> \E k \in DOMAIN TaskNames : running(TaskNames[k]),
         lines  |-> [k \in DOMAIN SelectSeq(TaskNames, shown) |->
                       LET n == SelectSeq(TaskNames, shown)[k]
                       IN  [task_name |-> n, current |-> tk[n].current,
                            total |-> tk[n].total]]]

NoMessage == [header |-> FALSE, lines |-> <<>>]

(***************************************************************************)
(* State.                                                                  *)
(***************************************************************************)
VARIABLES
    wallets,               \* user_task["wallets"]
    i,                     \* position of process_wallets_for_user in wallets
    results,               \* results of process_wallets_for_user
    batch_pc,              \* "loop", "deliver", "done", "crashed"
    report,                \* the records sent to the chat
    pc,                    \* position of WalletProcessor.process
    wallet_address,        \* self.wallet_address
    tasks,                 \* self.tasks
    result,                \* self.result
    transactions,          \* self.transactions
    meteora_transactions,  \* self.meteora_transactions
    pool_addresses,        \* self.pool_addresses
    retry_count,           \* retry_count of check_cnft
    data,                  \* the answer the running stage holds: data of
                           \* check_cnft, response of get_transactions
    idx,                   \* index of the running stage loop (items done)
    fetched,               \* outcomes of the running loop's get_transaction calls
    unique_pool_addresses, \* unique_pool_addresses of extract_pool_addresses
    fee_log,               \* answers of the fee endpoint to get_pool_fees
    progress               \* the last text given to update_callback

batch_vars == <<wallets, i, results, batch_pc, report>>
self_vars == <<wallet_address, tasks, result, transactions,
               meteora_transactions, pool_addresses>>
local_vars == <<retry_count, data, idx, fetched, unique_pool_addresses, fee_log>>

(***************************************************************************)
(* APIManager and the pipelines that consult it.                           *)
(***************************************************************************)
VARIABLES
    rpc_urls,              \* RPC_URLS: the URLs of RPC_URL.txt
    helius_api_keys,       \* HELIUS_API_KEYS: the keys of HELIUS_API_KEY.txt
    user_counters,         \* api_manager.user_counters
    last_used,             \* api_manager.last_used, 0 for a key never used
    now,                   \* the last reading of datetime.now().timestamp()
    api_pc,                \* position of each running batch
    api_i,                 \* wallets each batch has given a WalletProcessor
    helius_api_key,        \* self.helius_api_key of the batch's WalletProcessor
    api_retry_count,       \* retry_count of its check_cnft
    last_lookup,           \* the most recent call of get_endpoints_for_user
    lookups,               \* the calls of get_endpoints_for_user made so far
    user_tasks,            \* the module's dictionary: per user the entry of
                           \* the batch whose format_handler wrote last
    user_task              \* per batch, the entry its task read when it began

api_vars == <<rpc_urls, helius_api_keys, user_counters, last_used, now, api_pc,
              api_i, helius_api_key, api_retry_count, last_lookup,
              lookups, user_tasks, user_task>>

(***************************************************************************)
(* The command-line pipeline (meteora.py) run next to the bot pipeline on  *)
(* the same wallet and the same answers of the outside world.              *)
(***************************************************************************)
VARIABLES
    cmp_pc,                \* the stage both pipelines have come to
    cmp_wallet,            \* the wallet address given to both
    cmp_idx,               \* items of the running loop both have passed over
    bot_run,               \* WalletProcessor: result, lists and pool set
    cli_run                \* process_wallet: result, lists, pool set, and
                           \* whether its try block was left by an exception

cli_vars == <<cmp_pc, cmp_wallet, cmp_idx, bot_run, cli_run>>

vars == <<batch_vars, pc, self_vars, local_vars, progress, api_vars, cli_vars>>

\* the users of the bot, and the batches format_handler has started as
\* tasks: a user who selects a format twice has two batches running
Users == {"u1", "u2"}
Tasks == {"t1", "t2", "t3"}
Owner == [t \in Tasks |-> IF t = "t3" THEN "u2" ELSE "u1"]

RpcFile == <<"https://rpc-a", "https://rpc-b", "https://rpc-c">>
KeyFile == <<"key-a", "key-b", "key-c">>

NoCounter == <<>>
NoEndpoint == -1
\* user_tasks.get(user_id) of a user without an entry
NoTask == "none"

NoLookup == [user |-> "", first |-> FALSE, rpc_index |-> NoEndpoint,
             helius_index |-> NoEndpoint, current_time |-> 0, latest |-> FALSE]

\* APIManager._get_least_used_index: the first index whose last use is the
\* earliest (the comparison is strict), a key never used counting as 0
_get_least_used_index(used, n) ==
    CHOOSE m \in 0..(n - 1) :
        /\ \A j \in 0..(n - 1) : used[m] <= used[j]
        /\ \A j \in 0..(m - 1) : used[j] > used[m]

\* the indices get_endpoints_for_user settles on: the least recently used
\* ones at the user's first request, the next ones round the lists after it
Indices(counters, used, user_id) ==
    IF counters[user_id] = NoCounter
    THEN << _get_least_used_index(used.rpc, Len(rpc_urls)),
            _get_least_used_index(used.helius, Len(helius_api_keys)) >>
    ELSE << (counters[user_id][1] + 1) % Len(rpc_urls),
            (counters[user_id][2] + 1) % Len(helius_api_keys) >>

\* self.last_used[key] = current_time
Touch_forgotten(used, ix, current_time) == used
Touch(used, ix, current_time) ==
    [rpc    |-> [used.rpc EXCEPT ![ix[1]] = current_time],
     helius |-> [used.helius EXCEPT ![ix[2]] = current_time]]

\* the readings datetime.now().timestamp() can give after the reading now:
\* the wall clock advances in ticks (of several milliseconds on some
\* platforms), so two calls can read the same value
Readings == {now, now + 1}

\* APIManager.get_endpoints_for_user(user_id), a synchronous call: the
\* counters and the times of use are read and written in the one step
get_endpoints_for_user(user_id, current_time) ==
    LET ix == Indices(user_counters, last_used, user_id)
    IN  /\ user_counters' = [user_counters EXCEPT ![user_id] = ix]
        /\ last_used' = Touch(last_used, ix, current_time)
        /\ now' = current_time
        /\ lookups' = lookups + 1
        /\ last_lookup' =
              [user |-> user_id, first |-> user_counters[user_id] = NoCounter,
               rpc_index |-> ix[1], helius_index |-> ix[2],
               current_time |-> current_time,
               latest |-> /\ \A j \in DOMAIN last_used.rpc :
                                last_used.rpc[j] < current_time
                          /\ \A j \in DOMAIN last_used.helius :
                                last_used.helius[j] < current_time]

\* the manager and the batches when the bot has started, with r URLs and h keys
ApiStart(r, h) ==
    /\ rpc_urls = SubSeq(RpcFile, 1, r)
    /\ helius_api_keys = SubSeq(KeyFile, 1, h)
    /\ user_counters = [u \in Users |-> NoCounter]
    /\ last_used = [rpc |-> [j \in 0..(r - 1) |-> 0],
                    helius |-> [j \in 0..(h - 1) |-> 0]]
    /\ now = 1
    /\ api_pc = [t \in Tasks |-> "start"]
    /\ api_i = [t \in Tasks |-> 0]
    /\ helius_api_key = [t \in Tasks |-> NoEndpoint]
    /\ api_retry_count = [t \in Tasks |-> 0]
    /\ last_lookup = NoLookup
    /\ lookups = 0
    /\ user_tasks = [u \in Users |-> NoTask]
    /\ user_task = [t \in Tasks |-> NoTask]

\* self.result as WalletProcessor.__init__ creates it
NewResult_noAddress(w) ==
    [wallet |-> "", total_fees |-> 0, pools_with_fees |-> 0, first_tx |-> NA,
     active_weeks |-> 0, active_months |-> 0, cnft |-> FALSE, blacklist |-> FALSE]
NewResult(w) ==
    [wallet |-> w, total_fees |-> 0, pools_with_fees |-> 0, first_tx |-> NA,
     active_weeks |-> 0, active_months |-> 0, cnft |-> FALSE, blacklist |-> FALSE]

NewTasks == [n \in Range(TaskNames) |-> NewTask]

\* both pipelines about to process the wallet w: the result dictionaries as
\* WalletProcessor.__init__ and process_wallet create them
CmpStart(w) ==
    /\ cmp_pc = "blacklist"
    /\ cmp_wallet = w
    /\ cmp_idx = 0
    /\ bot_run = [result |-> NewResult(w), transactions |-> <<>>,
                  meteora_transactions |-> <<>>, pools |-> {}]
    /\ cli_run = [result |-> NewResult(w), transactions |-> <<>>,
                  meteora_transactions |-> <<>>, pools |-> {}, caught |-> FALSE]

Init ==
    /\ wallets \in Batches
    /\ i = 1
    /\ results = <<>>
    /\ batch_pc = "loop"
    /\ report = <<>>
    /\ pc = "none"
    /\ wallet_address = ""
    /\ tasks = NewTasks
    /\ result = NewResult("")
    /\ transactions = <<>>
    /\ meteora_transactions = <<>>
    /\ pool_addresses = <<>>
    /\ retry_count = 0
    /\ data = NoData
    /\ idx = 0
    /\ fetched = <<>>
    /\ unique_pool_addresses = {}
    /\ fee_log = <<>>
    /\ progress = NoMessage
    /\ ApiStart(1, 1)
    /\ CmpStart("")

(***************************************************************************)
(* process_wallets_for_user: one WalletProcessor per wallet.               *)
(***************************************************************************)
\* WalletProcessor(wallet, user_id, progress_callback)
NewProcessor ==
    /\ batch_pc = "loop"
    /\ pc = "none"
    /\ i <= Len(wallets)
    /\ wallet_address' = wallets[i]
    /\ tasks' = NewTasks
    /\ result' = NewResult(wallets[i])
    /\ transactions' = <<>>
    /\ meteora_transactions' = <<>>
    /\ pool_addresses' = <<>>
    /\ pc' = "check_blacklist"
    /\ UNCHANGED <<batch_vars, local_vars, progress>>
    /\ UNCHANGED <<api_vars, cli_vars>>

(***************************************************************************)
(* WalletProcessor.check_blacklist                                         *)
(***************************************************************************)
check_blacklist ==
    /\ batch_pc = "loop"
    /\ pc = "check_blacklist"
    /\ result' = [result EXCEPT !.blacklist = in_blacklist(wallet_address)]
    /\ tasks' = [tasks EXCEPT !["check_blacklist"] = complete(start(@))]
    /\ progress' = ProgressMessage(tasks')
    /\ pc' = "check_cnft"
    /\ UNCHANGED <<batch_vars, wallet_address, transactions,
                   meteora_transactions, pool_addresses, local_vars>>
    /\ UNCHANGED <<api_vars, cli_vars>>

(***************************************************************************)
(* WalletProcessor.check_cnft                                              *)
(***************************************************************************)
\* the creator check of one asset: the top-level creators list, then
\* content.creators
creator_found(a) ==
    \/ a.creators = "match"
    \/ (a.content = "dict" /\ a.c_creators = "match")

\* the name check of one asset: content.metadata.name, name, content.name
name_match(a) ==
    \/ (a.content = "dict" /\ a.metadata = "dict" /\ a.m_name = "match")
    \/ a.name = "match"
    \/ (a.content = "dict" /\ a.c_name = "match")

\* the checks of one asset raise a TypeError: a null where a list, a dict or
\* a string is read
ItemRaises(a) ==
    LET found_top == a.creators = "match"
        m1 == a.content = "dict" /\ a.metadata = "dict" /\ a.m_name = "match"
        m2 == m1 \/ a.name = "match"
    IN  \/ a.creators = "null"
        \/ (~found_top /\ a.content # "absent"
              /\ (a.content = "null" \/ a.c_creators = "null"))
        \/ (a.content # "absent"
              /\ (a.content = "null" \/ a.metadata = "null"
                    \/ (a.metadata = "dict" /\ a.m_name = "null")))
        \/ (~m1 /\ a.name = "null")
        \/ (~m2 /\ a.content = "dict" /\ a.c_name = "null")

\* one pass of the item loop: "raise", "found" or "none"
ScanItem_nameAlone(a) ==
    IF ItemRaises(a) THEN "raise"
    ELSE IF name_match(a) THEN "found"
    ELSE IF creator_found(a) /\ a.content # "absent" /\ a.keyword THEN "found"
    ELSE "none"
ScanItem_noKeyword(a) ==
    IF ItemRaises(a) THEN "raise"
    ELSE IF creator_found(a) /\ name_match(a) THEN "found"
    ELSE "none"
ScanItem(a) ==
    IF ItemRaises(a) THEN "raise"
    ELSE IF creator_found(a) /\ name_match(a) THEN "found"
    ELSE IF creator_found(a) /\ a.content # "absent" /\ a.keyword THEN "found"
    ELSE "none"

\* the item loop from item k on
RECURSIVE ItemLoop(_, _)
ItemLoop_firstOnly(items, k) ==
    IF k > Len(items) THEN "none" ELSE ScanItem(items[k])
ItemLoop(items, k) ==
    IF k > Len(items) THEN "none"
    ELSE LET r == ScanItem(items[k])
         IN  IF r = "none" THEN ItemLoop(items, k + 1) ELSE r

\* the fallback loop: a creator match at the top-level creators list
Fallback_none(items) == FALSE
Fallback(items) == \E k \in DOMAIN items : items[k].creators = "match"

\* the handling of a well-formed answer: the debug log of the first item,
\* the item loop, the fallback loop
CnftScan(items) ==
    IF Len(items) > 0 /\ items[1].content = "null" THEN "raise"
    ELSE LET r == ItemLoop(items, 1)
         IN  IF r # "none" THEN r
             ELSE IF Fallback(items) THEN "found" ELSE "none"

\* the answers that count as a failed attempt and are retried
RetriedKinds_transportOnly == {"request_error"}
RetriedKinds == {"request_error", "api_error", "no_result", "no_items"}

\* one asset-search request of the retry loop
CnftRequest ==
    /\ batch_pc = "loop"
    /\ pc = "check_cnft"
    /\ retry_count < max_retries
    /\ \E resp \in AssetResponses(wallet_address) : data' = resp
    /\ IF retry_count = 0
       THEN /\ tasks' = [tasks EXCEPT !["check_cnft"] = start(@)]
            /\ result' = [result EXCEPT !.cnft = FALSE]
       ELSE UNCHANGED <<tasks, result>>
    /\ pc' = "check_cnft_handle"
    /\ UNCHANGED <<batch_vars, wallet_address, transactions,
                   meteora_transactions, pool_addresses,
                   retry_count, idx, fetched, unique_pool_addresses, fee_log, progress>>
    /\ UNCHANGED <<api_vars, cli_vars>>

\* what check_cnft does with the answer: "retry", "found", "none", "raise".
\* An exception that is no RequestException reaches the clause
\* "except json.JSONDecodeError" of a module that never imports json: the
\* NameError leaves check_cnft.
CnftOutcome_retryNoMatch(d) ==
    IF d.kind \in RetriedKinds THEN "retry"
    ELSE IF d.kind = "bad_shape" THEN "raise"
    ELSE IF CnftScan(d.items) = "none" THEN "retry" ELSE CnftScan(d.items)
CnftOutcome(d) ==
    IF d.kind \in RetriedKinds THEN "retry"
    ELSE IF d.kind = "bad_shape" THEN "raise"
    ELSE CnftScan(d.items)

CnftHandle ==
    /\ batch_pc = "loop"
    /\ pc = "check_cnft_handle"
    /\ LET o == CnftOutcome(data)
       IN  CASE o = "found" ->
                  /\ result' = [result EXCEPT !.cnft = TRUE]
                  /\ tasks' = [tasks EXCEPT !["check_cnft"] = complete(@)]
                  /\ progress' = ProgressMessage(tasks')
                  /\ retry_count' = 0
                  /\ pc' = "get_transactions"
                  /\ UNCHANGED batch_pc
             [] o = "none" ->
                  /\ tasks' = [tasks EXCEPT !["check_cnft"] = complete(@)]
                  /\ progress' = ProgressMessage(tasks')
                  /\ retry_count' = 0
                  /\ pc' = "get_transactions"
                  /\ UNCHANGED <<result, batch_pc>>
             [] o = "retry" /\ retry_count + 1 < max_retries ->
                  /\ retry_count' = retry_count + 1
                  /\ pc' = "check_cnft"
                  /\ UNCHANGED <<result, tasks, progress, batch_pc>>
             [] o = "retry" /\ retry_count + 1 >= max_retries ->
                  /\ tasks' = [tasks EXCEPT !["check_cnft"] = fail(@)]
                  /\ progress' = ProgressMessage(tasks')
                  /\ retry_count' = 0
                  /\ pc' = "get_transactions"
                  /\ UNCHANGED <<result, batch_pc>>
             [] o = "raise" ->
                  /\ pc' = "raised"
                  /\ batch_pc' = "crashed"
                  /\ retry_count' = 0
                  /\ UNCHANGED <<result, tasks, progress>>
    /\ data' = NoData
    /\ UNCHANGED <<wallets, i, results, report, wallet_address, transactions,
                   meteora_transactions, pool_addresses,
                   idx, fetched, unique_pool_addresses, fee_log>>
    /\ UNCHANGED <<api_vars, cli_vars>>

(***************************************************************************)
(* WalletProcessor.get_transactions                                        *)
(***************************************************************************)
\* the records kept from a listing: those with a block time
Records_keepAll(listing) ==
    [k \in DOMAIN listing |->
       [signature |-> listing[k], timestamp |-> Chain[listing[k]].block_time]]
Records(listing) ==
    LET has_time(s) == Chain[s].block_time # NoBlockTime
        kept == SelectSeq(listing, has_time)
    IN  [k \in DOMAIN kept |->
           [signature |-> kept[k], timestamp |-> Chain[kept[k]].block_time]]

\* self.transactions after the one listing call: the assignment is the last
\* statement that can raise, so a failed call leaves the list as it was
Listed_partial(old, ok, listing) == Records(listing)
Listed(old, ok, listing) == IF ok THEN Records(listing) ELSE old

get_transactions ==
    /\ batch_pc = "loop"
    /\ pc = "get_transactions"
    /\ \/ \* Pubkey.from_string raises, or the listing request raises after
          \* the node has put together some listing
          /\ \E listing \in History(wallet_address) :
                transactions' = Listed(transactions, FALSE, listing)
          /\ tasks' = [tasks EXCEPT !["get_transactions"] = fail(start(@))]
          /\ data' = NoData
       \/ /\ ParsesAsPubkey(wallet_address)
          /\ \E listing \in History(wallet_address) :
                /\ transactions' = Listed(transactions, TRUE, listing)
                /\ data' = [kind |-> "listing", items |-> listing]
                /\ tasks' = [tasks EXCEPT !["get_transactions"] =
                               complete(update(start(@), Len(transactions')))]
    /\ progress' = ProgressMessage(tasks')
    /\ pc' = "filter_meteora_transactions"
    /\ UNCHANGED <<batch_vars, wallet_address, result,
                   meteora_transactions, pool_addresses,
                   retry_count, idx, fetched, unique_pool_addresses, fee_log>>
    /\ UNCHANGED <<api_vars, cli_vars>>

(***************************************************************************)
(* WalletProcessor.filter_meteora_transactions                             *)
(***************************************************************************)
\* the instruction is a UiPartiallyDecodedInstruction of the target program
IsMeteoraInstruction_anyProgram(instr) == instr.form = "partial"
IsMeteoraInstruction(instr) ==
    instr.form = "partial" /\ instr.program_id = METEORA_PROGRAM_ID

\* the instruction scan of the filter finds a match
HasMeteoraInstruction_first(instructions) ==
    Len(instructions) > 0 /\ IsMeteoraInstruction(instructions[1])
HasMeteoraInstruction(instructions) ==
    \E k \in DOMAIN instructions : IsMeteoraInstruction(instructions[k])

\* the filter keeps the record given the outcome of its fetch
Keeps(outcome, rec) ==
    outcome = "ok" /\ HasMeteoraInstruction(Chain[rec.signature].instructions)

\* self.meteora_transactions after the pass over rec: the break after the
\* first matching instruction appends the record once
AppendKept_perInstruction(out, outcome, rec) ==
    IF outcome = "ok"
    THEN out \o [k \in 1..Cardinality({j \in DOMAIN Chain[rec.signature].instructions :
                        IsMeteoraInstruction(Chain[rec.signature].instructions[j])})
                  |-> rec]
    ELSE out
AppendKept(out, outcome, rec) ==
    IF Keeps(outcome, rec) THEN Append(out, rec) ELSE out

\* the task of a fetching loop after the pass of item index: a null
\* transaction takes the continue that skips the update and the notification
LoopProgress(task, outcome, index) ==
    IF outcome = "null" THEN task ELSE update(task, index)

\* the position of a stage loop after the pass of item index of n: the
\* try/except inside the loop body lets the loop go on after a failed pass
LoopAfter_abort(index, n, failed) == IF failed THEN n ELSE index
LoopAfter(index, n, failed) == index

Notifies(outcome, index, n, every) ==
    outcome # "null" /\ (index % every = 0 \/ index = n)

FilterStart ==
    /\ batch_pc = "loop"
    /\ pc = "filter_meteora_transactions"
    /\ tasks' = [tasks EXCEPT !["filter_meteora_transactions"] =
                   start_total(@, Len(transactions))]
    /\ meteora_transactions' = <<>>
    /\ idx' = 0
    /\ fetched' = <<>>
    /\ data' = NoData
    /\ pc' = "filter_loop"
    /\ UNCHANGED <<batch_vars, wallet_address, result, transactions,
                   pool_addresses, retry_count,
                   unique_pool_addresses, fee_log, progress>>
    /\ UNCHANGED <<api_vars, cli_vars>>

FilterIter ==
    /\ batch_pc = "loop"
    /\ pc = "filter_loop"
    /\ idx < Len(transactions)
    /\ \E outcome \in FetchOutcomes :
          LET index == idx + 1
              rec   == transactions[index]
          IN  /\ fetched' = Append(fetched, outcome)
              /\ meteora_transactions' =
                    AppendKept(meteora_transactions, outcome, rec)
              /\ tasks' = [tasks EXCEPT !["filter_meteora_transactions"] =
                             LoopProgress(@, outcome, index)]
              /\ progress' = IF Notifies(outcome, index, Len(transactions), 5)
                             THEN ProgressMessage(tasks') ELSE progress
              /\ idx' = LoopAfter(index, Len(transactions), outcome = "error")
    /\ UNCHANGED <<batch_vars, pc, wallet_address, result, transactions,
                   pool_addresses, retry_count, data,
                   unique_pool_addresses, fee_log>>
    /\ UNCHANGED <<api_vars, cli_vars>>

FilterDone ==
    /\ batch_pc = "loop"
    /\ pc = "filter_loop"
    /\ idx = Len(transactions)
    /\ tasks' = [tasks EXCEPT !["filter_meteora_transactions"] = complete(@)]
    /\ progress' = ProgressMessage(tasks')
    /\ idx' = 0
    /\ fetched' = <<>>
    /\ pc' = "process_timestamps"
    /\ UNCHANGED <<batch_vars, wallet_address, result, transactions,
                   meteora_transactions, pool_addresses, retry_count, data,
                   unique_pool_addresses, fee_log>>
    /\ UNCHANGED <<api_vars, cli_vars>>

(***************************************************************************)
(* WalletProcessor.process_timestamps, calculate_activity_metrics          *)
(***************************************************************************)
\* [ts for _, ts in self.meteora_transactions]
Timestamps_dropFirst(txs) == [k \in 1..(Len(txs) - 1) |-> txs[k + 1].timestamp]
Timestamps(txs) == [k \in DOMAIN txs |-> txs[k].timestamp]

\* the first_tx the stage leaves, given the value it finds
FirstTx_firstListed(old, timestamps) ==
    IF Len(timestamps) > 0
    THEN strftime(utcfromtimestamp(timestamps[1]))
    ELSE old
FirstTx_epochWhenEmpty(old, timestamps) ==
    strftime(utcfromtimestamp(IF Len(timestamps) > 0 THEN SeqMin(timestamps) ELSE 0))
FirstTx(old, timestamps) ==
    IF Len(timestamps) > 0
    THEN strftime(utcfromtimestamp(SeqMin(timestamps)))
    ELSE old

\* the (ISO year, ISO week) and the (year, month) buckets of a timestamp list
Weeks_noDedup(timestamps) ==
    {<<k, isocalendar(utcfromtimestamp(timestamps[k]))>> : k \in DOMAIN timestamps}
Weeks(timestamps) ==
    {isocalendar(utcfromtimestamp(timestamps[k])) : k \in DOMAIN timestamps}
Months(timestamps) ==
    {<<utcfromtimestamp(timestamps[k]).year, utcfromtimestamp(timestamps[k]).month>> :
        k \in DOMAIN timestamps}

process_timestamps ==
    /\ batch_pc = "loop"
    /\ pc = "process_timestamps"
    /\ result' = [result EXCEPT !.first_tx =
                    FirstTx(@, Timestamps(meteora_transactions))]
    /\ tasks' = [tasks EXCEPT !["process_timestamps"] = complete(start(@))]
    /\ progress' = ProgressMessage(tasks')
    /\ pc' = "calculate_activity_metrics"
    /\ UNCHANGED <<batch_vars, wallet_address, transactions,
                   meteora_transactions, pool_addresses, local_vars>>
    /\ UNCHANGED <<api_vars, cli_vars>>

calculate_activity_metrics ==
    /\ batch_pc = "loop"
    /\ pc = "calculate_activity_metrics"
    /\ result' = [result EXCEPT
                    !.active_weeks =
                        Cardinality(Weeks(Timestamps(meteora_transactions))),
                    !.active_months =
                        Cardinality(Months(Timestamps(meteora_transactions)))]
    /\ tasks' = [tasks EXCEPT !["calculate_activity_metrics"] = complete(start(@))]
    /\ progress' = ProgressMessage(tasks')
    /\ pc' = "extract_pool_addresses"
    /\ UNCHANGED <<batch_vars, wallet_address, transactions,
                   meteora_transactions, pool_addresses, local_vars>>
    /\ UNCHANGED <<api_vars, cli_vars>>

(***************************************************************************)
(* WalletProcessor.extract_pool_addresses                                  *)
(***************************************************************************)
\* the pool addresses one fetched transaction adds: the account at index 2
\* of every matching instruction that has one
PoolsOfTransaction(instructions) ==
    {instructions[k].accounts[PoolAccountIndex + 1] :
        k \in {j \in DOMAIN instructions :
                 /\ IsMeteoraInstruction(instructions[j])
                 /\ Len(instructions[j].accounts) > PoolAccountIndex}}

\* what one loop pass adds, given the outcome of its fetch
Extracted(outcome, rec) ==
    IF outcome = "ok" THEN PoolsOfTransaction(Chain[rec.signature].instructions)
    ELSE {}

ExtractStart ==
    /\ batch_pc = "loop"
    /\ pc = "extract_pool_addresses"
    /\ tasks' = [tasks EXCEPT !["extract_pool_address"] =
                   start_total(@, Len(meteora_transactions))]
    /\ unique_pool_addresses' = {}
    /\ idx' = 0
    /\ fetched' = <<>>
    /\ pc' = "extract_loop"
    /\ UNCHANGED <<batch_vars, wallet_address, result, transactions,
                   meteora_transactions, pool_addresses, retry_count, data,
                   fee_log, progress>>
    /\ UNCHANGED <<api_vars, cli_vars>>

ExtractIter ==
    /\ batch_pc = "loop"
    /\ pc = "extract_loop"
    /\ idx < Len(meteora_transactions)
    /\ \E outcome \in FetchOutcomes :
          LET index == idx + 1
              rec   == meteora_transactions[index]
          IN  /\ fetched' = Append(fetched, outcome)
              /\ unique_pool_addresses' =
                    unique_pool_addresses \cup Extracted(outcome, rec)
              /\ tasks' = [tasks EXCEPT !["extract_pool_address"] =
                             LoopProgress(@, outcome, index)]
              /\ progress' = IF Notifies(outcome, index, Len(meteora_transactions), 5)
                             THEN ProgressMessage(tasks') ELSE progress
              /\ idx' = LoopAfter(index, Len(meteora_transactions), outcome = "error")
    /\ UNCHANGED <<batch_vars, pc, wallet_address, result, transactions,
                   meteora_transactions, pool_addresses, retry_count, data, fee_log>>
    /\ UNCHANGED <<api_vars, cli_vars>>

\* list(unique_pool_addresses): the set in some order
ExtractDone ==
    /\ batch_pc = "loop"
    /\ pc = "extract_loop"
    /\ idx = Len(meteora_transactions)
    /\ pool_addresses' \in Permutations_(unique_pool_addresses)
    /\ tasks' = [tasks EXCEPT !["extract_pool_address"] = complete(@)]
    /\ progress' = ProgressMessage(tasks')
    /\ unique_pool_addresses' = {}
    /\ idx' = 0
    /\ fetched' = <<>>
    /\ pc' = "get_pool_fees"
    /\ UNCHANGED <<batch_vars, wallet_address, result, transactions,
                   meteora_transactions, retry_count, data, fee_log>>
    /\ UNCHANGED <<api_vars, cli_vars>>

(***************************************************************************)
(* WalletProcessor.get_pool_fees                                           *)
(***************************************************************************)
\* the request succeeded and float() accepted the field (0.0 when absent)
FeeRead(resp) == resp.kind \in {"value", "absent"}

\* float(data.get("total_fee_usd_claimed", 0.0))
FeeAmount(resp) == IF resp.kind = "value" THEN resp.value ELSE 0

\* self.result after the loop pass that got the answer resp
AddFees_strict(r, resp) ==
    IF FeeRead(resp)
    THEN [r EXCEPT !.total_fees = @ + FeeAmount(resp),
                   !.pools_with_fees =
                       IF FeeAmount(resp) > FeeThreshold THEN @ + 1 ELSE @]
    ELSE r
AddFees_failureClears(r, resp) ==
    IF FeeRead(resp)
    THEN [r EXCEPT !.total_fees = @ + FeeAmount(resp),
                   !.pools_with_fees =
                       IF FeeAmount(resp) >= FeeThreshold THEN @ + 1 ELSE @]
    ELSE [r EXCEPT !.total_fees = 0, !.pools_with_fees = 0]
AddFees(r, resp) ==
    IF FeeRead(resp)
    THEN [r EXCEPT !.total_fees = @ + FeeAmount(resp),
                   !.pools_with_fees =
                       IF FeeAmount(resp) >= FeeThreshold THEN @ + 1 ELSE @]
    ELSE r

FeesStart ==
    /\ batch_pc = "loop"
    /\ pc = "get_pool_fees"
    /\ tasks' = [tasks EXCEPT !["get_pool_fees"] =
                   start_total(@, Len(pool_addresses))]
    /\ idx' = 0
    /\ fee_log' = <<>>
    /\ pc' = "fees_loop"
    /\ UNCHANGED <<batch_vars, wallet_address, result, transactions,
                   meteora_transactions, pool_addresses, retry_count, data,
                   fetched, unique_pool_addresses, progress>>
    /\ UNCHANGED <<api_vars, cli_vars>>

FeesIter ==
    /\ batch_pc = "loop"
    /\ pc = "fees_loop"
    /\ idx < Len(pool_addresses)
    /\ \E resp \in FeeResponses(pool_addresses[idx + 1]) :
          LET index == idx + 1
          IN  /\ fee_log' = Append(fee_log, resp)
              /\ result' = AddFees(result, resp)
              /\ tasks' = [tasks EXCEPT !["get_pool_fees"] = update(@, index)]
              /\ progress' = IF index % 2 = 0 \/ index = Len(pool_addresses)
                             THEN ProgressMessage(tasks') ELSE progress
              /\ idx' = LoopAfter(index, Len(pool_addresses), ~FeeRead(resp))
    /\ UNCHANGED <<batch_vars, pc, wallet_address, transactions,
                   meteora_transactions, pool_addresses, retry_count, data,
                   fetched, unique_pool_addresses>>
    /\ UNCHANGED <<api_vars, cli_vars>>

FeesDone ==
    /\ batch_pc = "loop"
    /\ pc = "fees_loop"
    /\ idx = Len(pool_addresses)
    /\ tasks' = [tasks EXCEPT !["get_pool_fees"] = complete(@)]
    /\ progress' = ProgressMessage(tasks')
    /\ idx' = 0
    /\ pc' = "return"
    /\ UNCHANGED <<batch_vars, wallet_address, result, transactions,
                   meteora_transactions, pool_addresses, retry_count, data,
                   fetched, unique_pool_addresses, fee_log>>
    /\ UNCHANGED <<api_vars, cli_vars>>

(***************************************************************************)
(* process returns; process_wallets_for_user goes on and delivers.         *)
(***************************************************************************)
\* results.append(result)
append_front(rs, r) == <<r>> \o rs
append(rs, r) == Append(rs, r)

\* result = await processor.process(); results.append(result)
ProcessReturn ==
    /\ batch_pc = "loop"
    /\ pc = "return"
    /\ results' = append(results, result)
    /\ i' = i + 1
    /\ pc' = "none"
    /\ batch_pc' = IF i + 1 > Len(wallets) THEN "deliver" ELSE "loop"
    /\ fee_log' = <<>>
    /\ UNCHANGED <<wallets, report, self_vars, retry_count, data, idx, fetched,
                   unique_pool_addresses, progress>>
    /\ UNCHANGED <<api_vars, cli_vars>>

\* the text messages, the CSV document and the completion message are sent;
\* a send that raises ends the batch before the completion message
Deliver ==
    /\ batch_pc = "deliver"
    /\ \/ /\ report' = results
          /\ batch_pc' = "done"
       \/ /\ batch_pc' = "crashed"
          /\ UNCHANGED report
    /\ UNCHANGED <<wallets, i, results, pc, self_vars, local_vars, progress>>
    /\ UNCHANGED <<api_vars, cli_vars>>

Next ==
    \/ NewProcessor
    \/ check_blacklist
    \/ CnftRequest
    \/ CnftHandle
    \/ get_transactions
    \/ FilterStart
    \/ FilterIter
    \/ FilterDone
    \/ process_timestamps
    \/ calculate_activity_metrics
    \/ ExtractStart
    \/ ExtractIter
    \/ ExtractDone
    \/ FeesStart
    \/ FeesIter
    \/ FeesDone
    \/ ProcessReturn
    \/ Deliver

Spec == Init /\ [][Next]_vars

\* the event loop resumes a coroutine whose awaited call has returned, so a
\* batch with a step to take takes it
FairSpec == Init /\ [][Next]_vars /\ WF_vars(Next)

(***************************************************************************)
(* WalletProcessor with a progress callback that may raise.                *)
(* update_progress awaits self.update_callback(message) with no guard, so  *)
(* the exception of the callback is raised at the await of the stage. A    *)
(* stage step hands the text to the callback; the step after it is the     *)
(* next stage when the callback returned and one of the steps below when   *)
(* it raised.                                                              *)
(***************************************************************************)
\* the stage loop at pc has just made a pass that called update_progress
LoopNotified ==
    /\ idx >= 1
    /\ \/ pc = "filter_loop" /\ Notifies(fetched[idx], idx, Len(transactions), 5)
       \/ pc = "extract_loop"
             /\ Notifies(fetched[idx], idx, Len(meteora_transactions), 5)
       \/ pc = "fees_loop" /\ (idx % 2 = 0 \/ idx = Len(pool_addresses))

\* the task of the stage loop at pc, and the stage process() calls next
LoopTask ==
    CASE pc = "filter_loop" -> "filter_meteora_transactions"
      [] pc = "extract_loop" -> "extract_pool_address"
      [] pc = "fees_loop" -> "get_pool_fees"

AfterLoop ==
    CASE pc = "filter_loop" -> "process_timestamps"
      [] pc = "extract_loop" -> "get_pool_fees"
      [] pc = "fees_loop" -> "return"

\* the task of the loop stage that returned just before pc
EndedLoopTask ==
    CASE pc = "process_timestamps" -> "filter_meteora_transactions"
      [] pc = "get_pool_fees" -> "extract_pool_address"
      [] pc = "return" -> "get_pool_fees"

\* the callback raised at an await that no try encloses (the last statement
\* of check_blacklist, check_cnft, get_transactions, process_timestamps and
\* calculate_activity_metrics, and the await inside the except clause of a
\* loop stage), or inside the try of check_cnft, whose clause
\* "except json.JSONDecodeError" raises NameError: the exception leaves
\* process(), and process_wallets_for_user does not catch it
ObserverEscapes ==
    /\ batch_pc = "loop"
    /\ \/ pc = "check_cnft" /\ tasks["check_cnft"].status = "idle"
       \/ pc \in {"get_transactions", "filter_meteora_transactions",
                  "calculate_activity_metrics", "extract_pool_addresses"}
       \/ /\ pc \in {"process_timestamps", "get_pool_fees", "return"}
          /\ tasks[EndedLoopTask].status = "failed"
    /\ pc' = "raised"
    /\ batch_pc' = "crashed"
    /\ UNCHANGED <<wallets, i, results, report, self_vars, local_vars, progress>>
    /\ UNCHANGED <<api_vars, cli_vars>>

\* the callback raised at the await inside a stage loop: the outer try of
\* the stage catches it, the remaining items are skipped (with the
\* assignment of self.pool_addresses), the task fails and update_progress is
\* awaited once more
ObserverCaughtInLoop ==
    /\ batch_pc = "loop"
    /\ pc \in {"filter_loop", "extract_loop", "fees_loop"}
    /\ LoopNotified
    /\ tasks' = [tasks EXCEPT ![LoopTask] = fail(@)]
    /\ progress' = ProgressMessage(tasks')
    /\ idx' = 0
    /\ fetched' = <<>>
    /\ unique_pool_addresses' = {}
    /\ pc' = AfterLoop
    /\ UNCHANGED <<batch_vars, wallet_address, result, transactions,
                   meteora_transactions, pool_addresses, retry_count, data,
                   fee_log>>
    /\ UNCHANGED <<api_vars, cli_vars>>

\* the callback raised at the await that follows task.complete() of a loop
\* stage: the outer try catches it, the completed task fails and
\* update_progress is awaited once more
ObserverCaughtAtEnd ==
    /\ batch_pc = "loop"
    /\ pc \in {"process_timestamps", "get_pool_fees", "return"}
    /\ tasks[EndedLoopTask].status = "completed"
    /\ tasks' = [tasks EXCEPT ![EndedLoopTask] = fail(@)]
    /\ progress' = ProgressMessage(tasks')
    /\ UNCHANGED <<batch_vars, pc, wallet_address, result, transactions,
                   meteora_transactions, pool_addresses, local_vars>>
    /\ UNCHANGED <<api_vars, cli_vars>>

NextObserver ==
    \/ Next
    \/ ObserverEscapes
    \/ ObserverCaughtInLoop
    \/ ObserverCaughtAtEnd

SpecObserver == Init /\ [][NextObserver]_vars

(***************************************************************************)
(* The batches as the endpoint manager sees them: the constructor of each  *)
(* wallet's WalletProcessor, the attempts of check_cnft with the lookup    *)
(* before each retry, and the release at the end of the batch.             *)
(***************************************************************************)
pipeline_vars == <<batch_vars, pc, self_vars, local_vars, progress, cli_vars>>

\* WalletProcessor.__init__ of a wallet of batch t; self.rpc_url is not
\* followed, no lookup reads it
NewWalletProcessor(t) ==
    /\ api_i[t] < MaxWallets
    /\ lookups < MaxLookups
    /\ \E current_time \in Readings :
          /\ get_endpoints_for_user(Owner[t], current_time)
          /\ helius_api_key' =
                [helius_api_key EXCEPT ![t] = user_counters'[Owner[t]][2]]
    /\ api_i' = [api_i EXCEPT ![t] = @ + 1]
    /\ api_retry_count' = [api_retry_count EXCEPT ![t] = 0]
    /\ api_pc' = [api_pc EXCEPT ![t] = "attempt"]
    /\ UNCHANGED <<rpc_urls, helius_api_keys, user_tasks, pipeline_vars>>

\* format_handler after its last await: the entry of the user is written
\* over and the batch is created as a task. The handlers run one after the
\* other and await the network before this point, so a task created by an
\* earlier handler has begun by then; tasks that are already running may
\* take their steps before the new one begins.
format_handler(t) ==
    /\ api_pc[t] = "start"
    /\ \A other \in Tasks : api_pc[other] # "created"
    /\ user_tasks' = [user_tasks EXCEPT ![Owner[t]] = t]
    /\ api_pc' = [api_pc EXCEPT ![t] = "created"]
    /\ UNCHANGED <<rpc_urls, helius_api_keys, user_counters, last_used, now,
                   api_i, helius_api_key, api_retry_count, last_lookup, lookups,
                   user_task, pipeline_vars>>

\* process_wallets_for_user begins: it finds an entry of its user and
\* starts on the first wallet of that entry
Construct(t) ==
    /\ api_pc[t] = "created"
    /\ user_tasks[Owner[t]] # NoTask
    /\ user_task' = [user_task EXCEPT ![t] = user_tasks[Owner[t]]]
    /\ NewWalletProcessor(t)

\* process_wallets_for_user begins and finds no entry: if not user_task: return
ReturnsAtOnce(t) ==
    /\ api_pc[t] = "created"
    /\ user_tasks[Owner[t]] = NoTask
    /\ api_pc' = [api_pc EXCEPT ![t] = "returned"]
    /\ UNCHANGED <<rpc_urls, helius_api_keys, user_counters, last_used, now,
                   api_i, helius_api_key, api_retry_count, last_lookup, lookups,
                   user_tasks, user_task, pipeline_vars>>

\* the asset-search request with self.helius_api_key failed, the sleep is
\* over and the retry takes a key:
\* _, self.helius_api_key = api_manager.get_endpoints_for_user(self.user_id)
Retry(t) ==
    /\ api_pc[t] = "attempt"
    /\ api_retry_count[t] + 1 < max_retries
    /\ lookups < MaxLookups
    /\ \E current_time \in Readings :
          /\ get_endpoints_for_user(Owner[t], current_time)
          /\ helius_api_key' =
                [helius_api_key EXCEPT ![t] = user_counters'[Owner[t]][2]]
    /\ api_retry_count' = [api_retry_count EXCEPT ![t] = @ + 1]
    /\ UNCHANGED <<rpc_urls, helius_api_keys, api_pc, api_i, user_tasks,
                   user_task, pipeline_vars>>

\* the request was answered or failed for the last time, process() returned
\* and the batch goes on to its next wallet
NextWallet(t) ==
    /\ api_pc[t] = "attempt"
    /\ NewWalletProcessor(t)
    /\ UNCHANGED user_task

\* del user_tasks[user_id]: KeyError when the user has no entry
del_user_task(t) ==
    /\ user_tasks' = [user_tasks EXCEPT ![Owner[t]] = NoTask]
    /\ api_pc' = [api_pc EXCEPT ![t] =
                    IF user_tasks[Owner[t]] = NoTask THEN "KeyError" ELSE "done"]

\* process() returned for the last wallet and the batch has sent its
\* messages: api_manager.release_user(user_id), then del
\* user_tasks[user_id], with no await between the two. A batch whose
\* process() raises stays at its attempt: it never releases.
Release(t) ==
    /\ api_pc[t] = "attempt"
    /\ user_counters' = [user_counters EXCEPT ![Owner[t]] = NoCounter]
    /\ del_user_task(t)
    /\ UNCHANGED <<rpc_urls, helius_api_keys, last_used, now, api_i,
                   helius_api_key, api_retry_count, last_lookup, lookups,
                   user_task, pipeline_vars>>

InitApi ==
    /\ wallets = <<"WRich">>
    /\ i = 1
    /\ results = <<>>
    /\ batch_pc = "loop"
    /\ report = <<>>
    /\ pc = "none"
    /\ wallet_address = ""
    /\ tasks = NewTasks
    /\ result = NewResult("")
    /\ transactions = <<>>
    /\ meteora_transactions = <<>>
    /\ pool_addresses = <<>>
    /\ retry_count = 0
    /\ data = NoData
    /\ idx = 0
    /\ fetched = <<>>
    /\ unique_pool_addresses = {}
    /\ fee_log = <<>>
    /\ progress = NoMessage
    /\ \E r \in 1..MaxKeys, h \in 1..MaxKeys : ApiStart(r, h)
    /\ CmpStart("")

NextApi ==
    \/ \E t \in Tasks : format_handler(t)
    \/ \E t \in Tasks : Construct(t)
    \/ \E t \in Tasks : ReturnsAtOnce(t)
    \/ \E t \in Tasks : Retry(t)
    \/ \E t \in Tasks : NextWallet(t)
    \/ \E t \in Tasks : Release(t)

SpecApi == InitApi /\ [][NextApi]_vars

(***************************************************************************)
(* meteora.py: process_wallet, stage by stage beside WalletProcessor.      *)
(***************************************************************************)
bot_only_vars == <<batch_vars, pc, self_vars, local_vars, progress, api_vars>>

\* wallet_address in blacklist
cli_in_blacklist(w, blacklist) == <<w>> \in blacklist

\* get_transactions(wallet): the records with a block time, [] when the
\* request raises
cli_get_transactions(ok, listing) ==
    IF ok
    THEN LET has_time(sig) == Chain[sig].block_time # NoBlockTime
             kept == SelectSeq(listing, has_time)
         IN  [k \in DOMAIN kept |->
                [signature |-> kept[k], timestamp |-> Chain[kept[k]].block_time]]
    ELSE <<>>

\* one pass of the loop of filter_meteora_transactions over the record rec
cli_filter_pass(meteora_txs, outcome, rec) ==
    IF /\ outcome = "ok"
       /\ \E k \in DOMAIN Chain[rec.signature].instructions :
             LET instr == Chain[rec.signature].instructions[k]
             IN  instr.form = "partial" /\ instr.program_id = METEORA_PROGRAM_ID
    THEN Append(meteora_txs, rec)
    ELSE meteora_txs

\* extract_pool_address(signature): the account at index 2 of the first
\* matching instruction that has one, as a set of at most one address
extract_pool_address(outcome, sig) ==
    LET ins == Chain[sig].instructions
        at  == {k \in DOMAIN ins :
                   /\ ins[k].form = "partial"
                   /\ ins[k].program_id = METEORA_PROGRAM_ID
                   /\ Len(ins[k].accounts) > PoolAccountIndex}
    IN  IF outcome # "ok" \/ at = {} THEN {}
        ELSE {ins[CHOOSE k \in at : \A j \in at : k <= j].accounts[PoolAccountIndex + 1]}

\* get_pool_fees(wallet, pool): the number read, 0.0 when the request or
\* float() raises
cli_get_pool_fees(resp) == IF resp.kind = "value" THEN resp.value ELSE 0

\* the body of the fee loop of process_wallet
cli_add_fees(r, resp) ==
    LET fees == cli_get_pool_fees(resp)
    IN  [r EXCEPT !.total_fees = @ + fees,
                  !.pools_with_fees = IF fees >= FeeThreshold THEN @ + 1 ELSE @]

\* the fee loop of each pipeline over its pools, in some order
RECURSIVE cli_fee_loop(_, _, _)
cli_fee_loop(r, pools, answer) ==
    IF pools = {} THEN r
    ELSE LET pool == CHOOSE q \in pools : TRUE
         IN  cli_fee_loop(cli_add_fees(r, answer[pool]), pools \ {pool}, answer)

RECURSIVE bot_fee_loop(_, _, _)
bot_fee_loop(r, pools, answer) ==
    IF pools = {} THEN r
    ELSE LET pool == CHOOSE q \in pools : TRUE
         IN  bot_fee_loop(AddFees(r, answer[pool]), pools \ {pool}, answer)

\* check_blacklist of the bot; in process_wallet the blacklist test, then
\* check_cnft and Pubkey.from_string, whose exception ends the try block
CmpBlacklist ==
    /\ cmp_pc = "blacklist"
    /\ cmp_wallet # ""
    /\ bot_run' = [bot_run EXCEPT !.result.blacklist = in_blacklist(cmp_wallet)]
    /\ cli_run' = [cli_run EXCEPT
                     !.result.blacklist = cli_in_blacklist(cmp_wallet, BLACKLIST),
                     !.caught = ~ParsesAsPubkey(cmp_wallet)]
    /\ cmp_pc' = "get_transactions"
    /\ UNCHANGED <<cmp_wallet, cmp_idx, bot_only_vars>>

\* the listing request, answered alike to both
CmpGetTransactions ==
    /\ cmp_pc = "get_transactions"
    /\ \E ok \in BOOLEAN, listing \in History(cmp_wallet) :
          /\ bot_run' = [bot_run EXCEPT !.transactions =
                           Listed(@, ok /\ ParsesAsPubkey(cmp_wallet), listing)]
          /\ cli_run' = IF cli_run.caught THEN cli_run
                        ELSE [cli_run EXCEPT !.transactions =
                                cli_get_transactions(ok, listing)]
    /\ cmp_idx' = 0
    /\ cmp_pc' = "filter"
    /\ UNCHANGED <<cmp_wallet, bot_only_vars>>

\* one get_transaction of the filter, answered alike to both
CmpFilter ==
    /\ cmp_pc = "filter"
    /\ cmp_idx < Len(bot_run.transactions)
    /\ \E outcome \in FetchOutcomes :
          LET index == cmp_idx + 1
          IN  /\ bot_run' = [bot_run EXCEPT !.meteora_transactions =
                               AppendKept(@, outcome, bot_run.transactions[index])]
              /\ cli_run' = IF cli_run.caught THEN cli_run
                            ELSE [cli_run EXCEPT !.meteora_transactions =
                                    cli_filter_pass(@, outcome,
                                                    cli_run.transactions[index])]
              /\ cmp_idx' = index
    /\ UNCHANGED <<cmp_pc, cmp_wallet, bot_only_vars>>

\* process_timestamps and calculate_activity_metrics of the bot; the same
\* statements of process_wallet with its calculate_activity_metrics
CmpActivity ==
    /\ cmp_pc = "filter"
    /\ cmp_idx = Len(bot_run.transactions)
    /\ LET bts == Timestamps(bot_run.meteora_transactions)
           cts == [k \in DOMAIN cli_run.meteora_transactions |->
                     cli_run.meteora_transactions[k].timestamp]
       IN  /\ bot_run' = [bot_run EXCEPT
                 !.result.first_tx = FirstTx(@, bts),
                 !.result.active_weeks = Cardinality(Weeks(bts)),
                 !.result.active_months = Cardinality(Months(bts))]
           /\ cli_run' = IF cli_run.caught THEN cli_run
                 ELSE [cli_run EXCEPT
                         !.result.first_tx =
                             IF Len(cts) > 0
                             THEN strftime(utcfromtimestamp(SeqMin(cts))) ELSE @,
                         !.result.active_weeks =
                             Cardinality({isocalendar(utcfromtimestamp(cts[k])) :
                                            k \in DOMAIN cts}),
                         !.result.active_months =
                             Cardinality({<<utcfromtimestamp(cts[k]).year,
                                            utcfromtimestamp(cts[k]).month>> :
                                            k \in DOMAIN cts})]
    /\ cmp_idx' = 0
    /\ cmp_pc' = "extract"
    /\ UNCHANGED <<cmp_wallet, bot_only_vars>>

\* one get_transaction of the pool extraction, answered alike to both
CmpExtract ==
    /\ cmp_pc = "extract"
    /\ cmp_idx < Len(bot_run.meteora_transactions)
    /\ \E outcome \in FetchOutcomes :
          LET index == cmp_idx + 1
          IN  /\ bot_run' = [bot_run EXCEPT !.pools =
                               @ \cup Extracted(outcome,
                                                bot_run.meteora_transactions[index])]
              /\ cli_run' = IF cli_run.caught THEN cli_run
                            ELSE [cli_run EXCEPT !.pools =
                                    @ \cup extract_pool_address(outcome,
                                        cli_run.meteora_transactions[index].signature)]
              /\ cmp_idx' = index
    /\ UNCHANGED <<cmp_pc, cmp_wallet, bot_only_vars>>

\* the fee requests: every pool asked about gets one answer, the same for
\* both pipelines, and each pipeline adds up the answers for its pools
CmpFees ==
    /\ cmp_pc = "extract"
    /\ cmp_idx = Len(bot_run.meteora_transactions)
    /\ LET asked == bot_run.pools \cup cli_run.pools
       IN  \E answer \in {f \in [asked -> UNION {FeeResponses(q) : q \in asked}] :
                            \A q \in asked : f[q] \in FeeResponses(q)} :
              /\ bot_run' = [bot_run EXCEPT !.result =
                               bot_fee_loop(@, bot_run.pools, answer)]
              /\ cli_run' = [cli_run EXCEPT !.result =
                               cli_fee_loop(@, cli_run.pools, answer)]
    /\ cmp_pc' = "done"
    /\ UNCHANGED <<cmp_wallet, cmp_idx, bot_only_vars>>

InitCli ==
    /\ wallets = <<"WRich">>
    /\ i = 1
    /\ results = <<>>
    /\ batch_pc = "loop"
    /\ report = <<>>
    /\ pc = "none"
    /\ wallet_address = ""
    /\ tasks = NewTasks
    /\ result = NewResult("")
    /\ transactions = <<>>
    /\ meteora_transactions = <<>>
    /\ pool_addresses = <<>>
    /\ retry_count = 0
    /\ data = NoData
    /\ idx = 0
    /\ fetched = <<>>
    /\ unique_pool_addresses = {}
    /\ fee_log = <<>>
    /\ progress = NoMessage
    /\ ApiStart(1, 1)
    /\ \E w \in Wallets : CmpStart(w)

NextCli ==
    \/ CmpBlacklist
    \/ CmpGetTransactions
    \/ CmpFilter
    \/ CmpActivity
    \/ CmpExtract
    \/ CmpFees

SpecCli == InitCli /\ [][NextCli]_vars

(***************************************************************************)
(* Vocabulary of the properties, stated apart from the operators above.    *)
(***************************************************************************)
\* some top-level instruction of the signature's transaction is addressed
\* to the target program, in whatever decoding form
TargetAnyForm(sig) ==
    \E k \in DOMAIN Chain[sig].instructions :
        Chain[sig].instructions[k].program_id = METEORA_PROGRAM_ID

\* the same, for a partially decoded instruction
TargetPartial(sig) ==
    \E k \in DOMAIN Chain[sig].instructions :
        /\ Chain[sig].instructions[k].program_id = METEORA_PROGRAM_ID
        /\ Chain[sig].instructions[k].form = "partial"

\* the elements of s at the positions in K, in the order of s
RECURSIVE Pick(_, _, _)
Pick(s, K, k) ==
    IF k > Len(s) THEN <<>>
    ELSE (IF k \in K THEN <<s[k]>> ELSE <<>>) \o Pick(s, K, k + 1)

Status(n) == tasks[n].status

\* the filter loop has passed over the whole signature list
FilterFinished == pc = "filter_loop" /\ idx = Len(transactions)

(***************************************************************************)
(* C1: WalletProcessor.process never raises: for every combination of      *)
(* external outcomes it returns the wallet's metrics record.               *)
(***************************************************************************)
C1_ProcessNeverRaises == pc # "raised"

(***************************************************************************)
(* C2: no failure while processing one wallet keeps another wallet from    *)
(* being processed: process_wallets_for_user ends with exactly one record  *)
(* per submitted wallet, in order, and then delivers them.                 *)
(***************************************************************************)
C2_OneRecordPerWallet ==
    batch_pc # "loop" =>
        /\ Len(results) = Len(wallets)
        /\ \A k \in DOMAIN results : results[k].wallet = wallets[k]
        /\ (batch_pc = "done" => report = results)

(***************************************************************************)
(* C3: within one wallet run the stages start in the order of TaskNames,   *)
(* a stage starts only when every earlier stage is completed or failed and *)
(* no later one has started, and once the filter has ended its output is   *)
(* what the timestamp, activity and extraction stages read: it no longer   *)
(* changes, and the extraction loop runs over exactly that list.           *)
(***************************************************************************)
StageStarts(k) ==
    Status(TaskNames[k]) = "idle" /\ tasks'[TaskNames[k]].status # "idle"

C3_StageOrder ==
    [][ /\ \A k \in DOMAIN TaskNames :
              StageStarts(k) =>
                 /\ \A j \in 1..(k - 1) : Status(TaskNames[j]) \in Terminal
                 /\ \A j \in (k + 1)..Len(TaskNames) :
                        tasks'[TaskNames[j]].status = "idle"
        /\ (Status("filter_meteora_transactions") \in Terminal
               /\ pc' \notin {"none", "check_blacklist"})
              => meteora_transactions' = meteora_transactions
        /\ StageStarts(7) =>
              tasks'["extract_pool_address"].total = Len(meteora_transactions)
      ]_vars

C3_Witness ==
    /\ Status("get_pool_fees") = "running"
    /\ \A j \in 1..7 : Status(TaskNames[j]) \in Terminal
    /\ Status("get_transactions") = "completed"
    /\ Len(meteora_transactions) = 2

(***************************************************************************)
(* C4: in the protocol filter a fetch or decode failure skips only its own *)
(* signature: when the loop ends every signature has been fetched, and the *)
(* kept records are exactly those whose fetch succeeded and whose          *)
(* transaction matches, in list order; the activity counts are taken over  *)
(* those records.                                                          *)
(***************************************************************************)
C4_FailureSkipsOnlyItsSignature ==
    /\ FilterFinished =>
          /\ Len(fetched) = Len(transactions)
          /\ meteora_transactions =
                Pick(transactions,
                     {k \in DOMAIN transactions :
                         fetched[k] = "ok" /\ TargetPartial(transactions[k].signature)},
                     1)
    /\ Status("calculate_activity_metrics") = "completed" =>
          result.active_months =
             Cardinality({<<utcfromtimestamp(r.timestamp).year,
                            utcfromtimestamp(r.timestamp).month>> :
                             r \in Range(meteora_transactions)})

C4_Witness ==
    /\ FilterFinished
    /\ Len(transactions) = 2
    /\ fetched = <<"error", "ok">>
    /\ TargetPartial(transactions[1].signature)
    /\ meteora_transactions = <<transactions[2]>>

(***************************************************************************)
(* C5 as stated: the filter keeps a signature's record whenever the        *)
(* fetched transaction has at least one top-level instruction whose        *)
(* program id is the target, in whatever form the instruction is decoded.  *)
(***************************************************************************)
C5_KeepsAnyDecodingForm ==
    pc = "filter_loop" =>
        \A k \in DOMAIN fetched :
            (fetched[k] = "ok" /\ TargetAnyForm(transactions[k].signature))
                => transactions[k] \in Range(meteora_transactions)

(***************************************************************************)
(* C5 amended: the filter keeps a signature's record whenever the fetched  *)
(* transaction has at least one partially decoded top-level instruction    *)
(* whose program id is the target, at whatever position in the             *)
(* transaction; a fully decoded instruction does not count.                *)
(***************************************************************************)
C5_KeepsPartiallyDecoded ==
    pc = "filter_loop" =>
        \A k \in DOMAIN fetched :
            /\ (fetched[k] = "ok" /\ TargetPartial(transactions[k].signature))
                  => transactions[k] \in Range(meteora_transactions)
            /\ (fetched[k] = "ok" /\ ~TargetPartial(transactions[k].signature))
                  => transactions[k] \notin Range(meteora_transactions)

C5_Witness ==
    /\ pc = "filter_loop"
    /\ Len(fetched) = 2
    /\ fetched = <<"ok", "ok">>
    /\ transactions[1].signature = "sigD"
    /\ transactions[2].signature = "sigB"
    /\ meteora_transactions = <<transactions[2]>>

(***************************************************************************)
(* C6: every record the filter outputs is a listed signature whose         *)
(* transaction was fetched and has a target-program instruction, and       *)
(* nothing else feeds the metrics: first_tx is the date of an output       *)
(* record, the week and month counts do not exceed the output, and every   *)
(* pool is an account of an output record's target instruction.            *)
(***************************************************************************)
C6_OnlyProtocolTransactions ==
    LET out == Range(meteora_transactions)
        pools(r) == {Chain[r.signature].instructions[k].accounts[j] :
                        <<k, j>> \in {x \in (1..2) \X (1..3) :
                            /\ x[1] \in DOMAIN Chain[r.signature].instructions
                            /\ x[2] \in DOMAIN Chain[r.signature].instructions[x[1]].accounts
                            /\ Chain[r.signature].instructions[x[1]].program_id
                                  = METEORA_PROGRAM_ID}}
    IN  /\ \A r \in out : r \in Range(transactions) /\ TargetAnyForm(r.signature)
        /\ pc = "filter_loop" =>
              \A r \in out : \E k \in DOMAIN fetched :
                  transactions[k] = r /\ fetched[k] = "ok"
        /\ result.first_tx # NA =>
              \E r \in out : result.first_tx = strftime(utcfromtimestamp(r.timestamp))
        /\ result.active_weeks <= Cardinality(out)
        /\ result.active_months <= Cardinality(out)
        /\ (unique_pool_addresses \cup Range(pool_addresses))
              \subseteq UNION {pools(r) : r \in out}

C6_Witness ==
    /\ pc = "return"
    /\ Len(transactions) = 2
    /\ transactions[1].signature = "sigC"
    /\ Len(meteora_transactions) = 1
    /\ result.first_tx # NA
    /\ result.active_weeks = 1
    /\ Len(pool_addresses) = 1

(***************************************************************************)
(* C7: with at least one protocol transaction, first_tx is the UTC         *)
(* calendar date, written DD.MM.YYYY, of the smallest timestamp among the  *)
(* protocol transactions, wherever that transaction stands in the list.    *)
(***************************************************************************)
\* text is DD.MM.YYYY of the calendar day that contains the second ts
IsDateOf(text, ts) ==
    LET val(c) == CHOOSE n \in 0..9 : DigitChars[n + 1] = c
        D == 10 * val(text[1]) + val(text[2])
        M == 10 * val(text[4]) + val(text[5])
        Y == 1000 * val(text[7]) + 100 * val(text[8])
               + 10 * val(text[9]) + val(text[10])
    IN  /\ Len(text) = 10
        /\ text[3] = "." /\ text[6] = "."
        /\ \A k \in {1, 2, 4, 5, 7, 8, 9, 10} : text[k] \in Range(DigitChars)
        /\ M \in 1..12
        /\ D \in 1..DaysInMonth(Y, M)
        /\ DaysFromCivil(Y, M, D) = ts \div SecondsPerDay

C7_FirstTxIsEarliestDate ==
    (Status("process_timestamps") = "completed" /\ meteora_transactions # <<>>) =>
        LET all == {r.timestamp : r \in Range(meteora_transactions)}
            least == CHOOSE m \in all : \A t \in all : m <= t
        IN  IsDateOf(result.first_tx, least)

C7_Witness ==
    /\ Status("process_timestamps") = "completed"
    /\ Timestamps(meteora_transactions) = <<1700000000, 1650000000>>
    /\ result.first_tx = <<"1", "5", ".", "0", "4", ".", "2", "0", "2", "2">>

(***************************************************************************)
(* C8: a wallet with no protocol transaction is returned with first_tx     *)
(* "N/A", active_weeks 0 and active_months 0.                              *)
(***************************************************************************)
C8_NoProtocolTransactions ==
    (pc = "return" /\ meteora_transactions = <<>>) =>
        /\ result.first_tx = NA
        /\ result.active_weeks = 0
        /\ result.active_months = 0

C8_Witness ==
    /\ pc = "return"
    /\ meteora_transactions = <<>>
    /\ Len(transactions) = 2
    /\ result.first_tx = NA

(***************************************************************************)
(* C9: the returned total_fees is the sum, over the distinct extracted     *)
(* pools, of the fee reported for the pool (0 when absent or malformed),   *)
(* and pools_with_fees is the number of pools whose reported fee is at     *)
(* least 0.01 dollar; fees 0.02, 0.0 and 5.00 give 5.02 and 2.             *)
(***************************************************************************)
Reported(answer) == IF answer.kind = "value" THEN answer.value ELSE 0

RECURSIVE SumReported(_)
SumReported(log) ==
    IF log = <<>> THEN 0 ELSE Reported(Head(log)) + SumReported(Tail(log))

C9_FeeTotals ==
    pc = "return" =>
        /\ Len(fee_log) = Len(pool_addresses)
        /\ Cardinality(Range(pool_addresses)) = Len(pool_addresses)
        /\ result.total_fees = SumReported(fee_log)
        /\ result.pools_with_fees =
              Cardinality({k \in DOMAIN fee_log : Reported(fee_log[k]) >= 10})

C9_Witness ==
    /\ pc = "return"
    /\ [k \in DOMAIN fee_log |-> Reported(fee_log[k])] = <<20, 0, 5000>>
    /\ \A k \in DOMAIN fee_log : fee_log[k].kind = "value"
    /\ result.total_fees = 5020
    /\ result.pools_with_fees = 2

(***************************************************************************)
(* C10: a fee request that fails adds nothing for its pool and leaves the  *)
(* amounts accumulated so far as they are, and the loop goes on to the     *)
(* next pool: it ends only when every pool has been queried.               *)
(***************************************************************************)
C10_FailedFeeRequest ==
    [][ /\ (/\ pc = "fees_loop"
            /\ Len(fee_log') = Len(fee_log) + 1
            /\ fee_log'[Len(fee_log')].kind = "error")
           => /\ result' = result
              /\ idx' = idx + 1
              /\ pc' = "fees_loop"
        /\ (pc = "fees_loop" /\ pc' # "fees_loop")
           => Len(fee_log) = Len(pool_addresses)
      ]_vars

C10_Witness ==
    /\ pc = "return"
    /\ Len(fee_log) = 3
    /\ fee_log[1].kind = "value" /\ fee_log[1].value = 20
    /\ fee_log[2].kind = "error"
    /\ fee_log[3].kind = "value" /\ fee_log[3].value = 5000
    /\ result.total_fees = 5020
    /\ result.pools_with_fees = 2

(***************************************************************************)
(* C11: when the asset search answers with an item list in which every     *)
(* field has its expected type and some asset passes both the creator      *)
(* check and the name check, check_cnft sets cnft and completes, whatever  *)
(* assets stand before or after that asset.                                *)
(***************************************************************************)
\* no field of the asset holds a null
WellFormedAsset(a) ==
    /\ "null" \notin {a.creators, a.content, a.c_creators, a.metadata}
    /\ "null" \notin {a.m_name, a.name, a.c_name}

\* the known creator is listed and the name holds the certificate's name
CertificateAsset(a) ==
    /\ "match" \in {a.creators} \cup (IF a.content = "dict" THEN {a.c_creators} ELSE {})
    /\ "match" \in {a.name} \cup
          (IF a.content = "dict"
           THEN {a.c_name} \cup (IF a.metadata = "dict" THEN {a.m_name} ELSE {})
           ELSE {})

\* check_cnft holds a well-formed answer
HoldsItems == pc = "check_cnft_handle" /\ data.kind = "items"

C11_CertificateAnywhereInList ==
    [][ (/\ HoldsItems
         /\ \A k \in DOMAIN data.items : WellFormedAsset(data.items[k])
         /\ \E k \in DOMAIN data.items : CertificateAsset(data.items[k]))
        => /\ result'.cnft = TRUE
           /\ tasks'["check_cnft"].status = "completed"
           /\ pc' = "get_transactions"
      ]_vars

C11_Witness ==
    /\ HoldsItems
    /\ retry_count = 1
    /\ Len(data.items) = 2
    /\ WellFormedAsset(data.items[1]) /\ ~CertificateAsset(data.items[1])
    /\ data.items[1].creators = "other"
    /\ CertificateAsset(data.items[2])
    /\ data.items[2].creators = "absent"

(***************************************************************************)
(* C12: when the third asset-search attempt fails like the two before it   *)
(* (transport error, error payload, result or items missing) check_cnft    *)
(* ends failed with cnft false, an earlier failed attempt is followed by   *)
(* another request, and the failed stage does not end the run: the other   *)
(* stages follow and the record is returned.                               *)
(***************************************************************************)
FailedAnswers == {"request_error", "api_error", "no_result", "no_items"}

C13_AtMostThreeRequests ==
    [][ /\ (pc = "check_blacklist" /\ pc' = "check_cnft") => retry_count' = 0
        /\ (pc = "check_cnft" /\ pc' = "check_cnft_handle") =>
              retry_count \in 0..2 /\ retry_count' = retry_count
        /\ (pc = "check_cnft_handle" /\ pc' = "check_cnft") =>
              /\ data.kind \in FailedAnswers
              /\ retry_count' = retry_count + 1
        /\ (pc = "check_cnft_handle" /\ data.kind = "items") =>
              pc' \in {"get_transactions", "raised"}
      ]_vars

C13_Witness ==
    /\ pc = "check_cnft_handle"
    /\ retry_count = 2
    /\ data.kind = "items"
    /\ data.items # <<>>
    /\ CnftScan(data.items) = "none"

C15_ListingFailure ==
    /\ Status("get_transactions") = "failed" =>
          /\ transactions = <<>>
          /\ meteora_transactions = <<>>
          /\ pool_addresses = <<>>
          /\ result.first_tx = NA
          /\ result.active_weeks = 0 /\ result.active_months = 0
          /\ result.total_fees = 0 /\ result.pools_with_fees = 0
          /\ pc \notin {"get_transactions", "raised"}
    /\ pc = "get_transactions" => Status("get_transactions") = "idle"
    /\ (pc = "return" /\ Status("get_transactions") = "failed") =>
          \A k \in 4..8 : Status(TaskNames[k]) = "completed"

C15_Witness ==
    /\ pc = "return"
    /\ ParsesAsPubkey(wallet_address)
    /\ Status("get_transactions") = "failed"
    /\ result.cnft = TRUE
    /\ result.first_tx = NA

(***************************************************************************)
(* C16 as stated: the record produced for a wallet whose address does not  *)
(* parse as a public key has every field at its default, the blacklist     *)
(* flag included: total_fees 0, pools_with_fees 0, first_tx "N/A",         *)
(* active_weeks 0, active_months 0, cnft false, blacklist false.           *)
(***************************************************************************)
Unparsable == {"WBad", "WJunk"}

\* some cell of the blacklist file reads w once its blanks are left out
InFile(w) ==
    \E cell \in BLACKLIST_FILE :
        SelectSeq(cell, LAMBDA c : c # " ") = <<w>>

DefaultsBut(w, listed) ==
    [wallet |-> w, total_fees |-> 0, pools_with_fees |-> 0, first_tx |-> NA,
     active_weeks |-> 0, active_months |-> 0, cnft |-> FALSE,
     blacklist |-> listed]

C16_UnparsableAllDefaults ==
    \A k \in DOMAIN results :
        results[k].wallet \in Unparsable =>
            results[k] = DefaultsBut(results[k].wallet, FALSE)

(***************************************************************************)
(* C16 amended: the record produced for a wallet whose address does not    *)
(* parse as a public key has total_fees 0, pools_with_fees 0, first_tx     *)
(* "N/A", active_weeks 0, active_months 0 and cnft false, and its          *)
(* blacklist flag is true exactly when the address string is in the        *)
(* blacklist set; once the record is returned, processing moves on to the  *)
(* next wallet of the batch.                                               *)
(***************************************************************************)
C16_UnparsableDefaultsButBlacklist ==
    [][ /\ \A k \in DOMAIN results' :
              results'[k].wallet \in Unparsable =>
                  results'[k] =
                     DefaultsBut(results'[k].wallet, InFile(results'[k].wallet))
        /\ (pc = "return" /\ wallet_address \in Unparsable) =>
              /\ Len(results') = Len(results) + 1
              /\ i' = i + 1
              /\ batch_pc' = IF i < Len(wallets) THEN "loop" ELSE "deliver"
      ]_vars

C16_Witness ==
    /\ Len(results) = 1
    /\ results[1] = DefaultsBut("WJunk", TRUE)
    /\ Len(wallets) = 2
    /\ pc = "check_blacklist"
    /\ wallet_address = wallets[2]

(***************************************************************************)
(* C17: the blacklist flag of a record is true exactly when the wallet     *)
(* address is one of the trimmed cells of the blacklist file's address     *)
(* column, whatever the other stages of the run came to.                   *)
(***************************************************************************)
C17_BlacklistIsMembership ==
    /\ \A k \in DOMAIN results :
          results[k].blacklist = InFile(results[k].wallet)
    /\ Status("check_blacklist") = "completed" =>
          result.blacklist = InFile(wallet_address)
    /\ Status("check_blacklist") # "failed"

C17_Witness ==
    /\ pc = "return"
    /\ wallet_address = "WBlack"
    /\ result.blacklist = TRUE
    /\ Status("check_cnft") = "failed"
    /\ Status("get_transactions") = "failed"
    /\ Len(results) = 1
    /\ results[1].blacklist = FALSE

(***************************************************************************)
(* C18: the week and month counts are those of the list without any one of *)
(* its timestamps, or one more: adding a timestamp never lowers a count,   *)
(* and a timestamp whose (ISO year, ISO week) bucket, or (year, month)     *)
(* bucket, is already in the list leaves that count as it was.             *)
(***************************************************************************)
WeekOf(ts) == isocalendar(utcfromtimestamp(ts))
MonthOf(ts) == <<utcfromtimestamp(ts).year, utcfromtimestamp(ts).month>>

\* the sequence s without its element at position k
Without(s, k) == SubSeq(s, 1, k - 1) \o SubSeq(s, k + 1, Len(s))

C18_BucketCountsMonotone ==
    \* the state calculate_activity_metrics leaves
    (pc = "extract_pool_addresses"
        /\ Status("calculate_activity_metrics") = "completed") =>
        \A k \in DOMAIN meteora_transactions :
            LET all   == Timestamps(meteora_transactions)
                rest  == Without(all, k)
                weeks == Cardinality(Weeks(rest))
                months == Cardinality(Months(rest))
            IN  /\ result.active_weeks >= weeks
                /\ result.active_months >= months
                /\ (\E j \in DOMAIN rest : WeekOf(rest[j]) = WeekOf(all[k]))
                      => result.active_weeks = weeks
                /\ (\E j \in DOMAIN rest : MonthOf(rest[j]) = MonthOf(all[k]))
                      => result.active_months = months
                /\ (\A j \in DOMAIN rest : WeekOf(rest[j]) # WeekOf(all[k]))
                      => result.active_weeks = weeks + 1
                /\ (\A j \in DOMAIN rest : MonthOf(rest[j]) # MonthOf(all[k]))
                      => result.active_months = months + 1

C18_Witness ==
    /\ pc = "extract_pool_addresses"
    /\ Status("calculate_activity_metrics") = "completed"
    /\ Timestamps(meteora_transactions) = <<1698796799, 1698796800>>
    /\ result.active_weeks = 1
    /\ result.active_months = 2

(***************************************************************************)
(* C19: each protocol transaction contributes at most one pool address,    *)
(* the account at index 2 of its first instruction addressed to the target *)
(* program, and none when that instruction has fewer than three accounts   *)
(* or when the re-fetch fails or returns null.                             *)
(***************************************************************************)
\* what the first target instruction of the signature's transaction gives
FirstPool(sig) ==
    LET ins == Chain[sig].instructions
        at  == {k \in DOMAIN ins :
                   ins[k].program_id = METEORA_PROGRAM_ID /\ ins[k].form = "partial"}
    IN  IF at = {} THEN {}
        ELSE LET first == CHOOSE k \in at : \A j \in at : k <= j
             IN  IF Len(ins[first].accounts) >= 3
                 THEN {ins[first].accounts[3]} ELSE {}

C19_OnePoolPerTransaction ==
    pc = "extract_loop" =>
        unique_pool_addresses =
            UNION {IF fetched[k] = "ok"
                   THEN FirstPool(meteora_transactions[k].signature) ELSE {} :
                       k \in DOMAIN fetched}

(***************************************************************************)
(* C20: the extracted pools are a set: the pool list has no address twice  *)
(* even when several protocol transactions reach the same pool, the fee    *)
(* endpoint is asked once per listed pool, and the returned totals hold    *)
(* each pool's fee once.                                                   *)
(***************************************************************************)
C20_PoolsAreASet ==
    LET pools == Range(pool_addresses)
    IN  /\ Cardinality(pools) = Len(pool_addresses)
        /\ pc = "fees_loop" =>
              Len(fee_log) = idx /\ idx <= Cardinality(pools)
        /\ pc = "return" =>
              /\ Len(fee_log) = Cardinality(pools)
              /\ result.pools_with_fees <= Cardinality(pools)
              /\ result.total_fees = SumReported(fee_log)

C20_Witness ==
    /\ pc = "return"
    /\ {meteora_transactions[k].signature : k \in DOMAIN meteora_transactions}
          = {"sigB", "sigF"}
    /\ Range(pool_addresses) = {"pool2", "pool3"}
    /\ Len(pool_addresses) = 2
    /\ \E k \in 1..2 : pool_addresses[k] = "pool2" /\ fee_log[k] = FeeAnswer("value", 10)
    /\ \E k \in 1..2 : pool_addresses[k] = "pool3" /\ fee_log[k] = FeeAnswer("value", 9)
    /\ result.total_fees = 19
    /\ result.pools_with_fees = 1

(***************************************************************************)
(* C21 as stated: when the item list holds an asset that matches the       *)
(* creator address, at the top-level creators list or at content.creators, *)
(* and not the name, cnft is set.                                          *)
(***************************************************************************)
CreatorAt(a) ==
    {loc \in {"creators", "content.creators"} :
        \/ loc = "creators" /\ a.creators = "match"
        \/ loc = "content.creators" /\ a.content = "dict" /\ a.c_creators = "match"}

NameMatches(a) ==
    "match" \in {a.name} \cup
        (IF a.content = "dict"
         THEN {a.c_name} \cup (IF a.metadata = "dict" THEN {a.m_name} ELSE {})
         ELSE {})

WellFormedItems ==
    HoldsItems /\ \A k \in DOMAIN data.items : WellFormedAsset(data.items[k])

CnftSet ==
    /\ result'.cnft = TRUE
    /\ tasks'["check_cnft"].status = "completed"
    /\ pc' = "get_transactions"

HasKeyword(a) == a.content = "dict" /\ a.keyword

C22_KeywordAlone ==
    [][ (WellFormedItems /\ \E k \in DOMAIN data.items : HasKeyword(data.items[k]))
        => CnftSet
      ]_vars

(***************************************************************************)
(* C22 amended: when a well-formed item list holds an asset whose          *)
(* serialized content contains the keyword and which matches the creator   *)
(* address, at the top-level creators list or at content.creators, cnft is *)
(* set; the keyword is looked for only in assets that match the creator,   *)
(* so a list whose keyword assets match neither creator nor name, and that *)
(* has no top-level creator match, leaves cnft false.                      *)
(***************************************************************************)
C22_KeywordWithCreator ==
    [][ /\ (/\ WellFormedItems
            /\ \E k \in DOMAIN data.items :
                  HasKeyword(data.items[k]) /\ CreatorAt(data.items[k]) # {})
           => CnftSet
        /\ (/\ WellFormedItems
            /\ \A k \in DOMAIN data.items : CreatorAt(data.items[k]) = {})
           => /\ result'.cnft = FALSE
              /\ tasks'["check_cnft"].status = "completed"
      ]_vars

C22_Witness ==
    /\ HoldsItems
    /\ Len(data.items) = 2
    /\ HasKeyword(data.items[1]) /\ CreatorAt(data.items[1]) = {}
    /\ WellFormedAsset(data.items[1])
    /\ HasKeyword(data.items[2])
    /\ CreatorAt(data.items[2]) = {"content.creators"}
    /\ ~NameMatches(data.items[2])

(***************************************************************************)
(* C24: every record of the signature list and of the filtered list has a  *)
(* timestamp: the list get_transactions leaves is the listing without the  *)
(* signatures that have no block time, in the listing's order, so no later *)
(* stage meets such a signature.                                           *)
(***************************************************************************)
HasBlockTime(sig) == Chain[sig].block_time # NoBlockTime

C24_EveryRecordHasTimestamp ==
    /\ \A r \in Range(transactions) \cup Range(meteora_transactions) :
          /\ HasBlockTime(r.signature)
          /\ r.timestamp = Chain[r.signature].block_time
          /\ r.timestamp > 0
    /\ data.kind = "listing" =>
          [k \in DOMAIN transactions |-> transactions[k].signature]
             = Pick(data.items, {k \in DOMAIN data.items : HasBlockTime(data.items[k])}, 1)

C24_Witness ==
    /\ data.kind = "listing"
    /\ data.items = <<"sigG", "sigA">>
    /\ Len(transactions) = 1
    /\ transactions[1].signature = "sigA"
    /\ Status("get_transactions") = "completed"

(***************************************************************************)
(* C25: the filter's output is a subsequence of the signature list: the    *)
(* kept records stand in the order of the list, and a record is kept at    *)
(* most once even when its transaction has several instructions of the     *)
(* target program.                                                         *)
(***************************************************************************)
\* a is b with some positions left out
IsSubsequence(a, b) ==
    \E K \in SUBSET DOMAIN b : a = Pick(b, K, 1)

C25_OutputIsSubsequence ==
    /\ IsSubsequence(meteora_transactions, transactions)
    /\ \A j, k \in DOMAIN meteora_transactions :
          meteora_transactions[j] = meteora_transactions[k] => j = k
    /\ Len(meteora_transactions) <= Len(transactions)

C25_Witness ==
    /\ FilterFinished
    /\ Len(transactions) = 2
    /\ transactions[1].signature = "sigF"
    /\ transactions[2].signature = "sigA"
    /\ meteora_transactions = transactions

(***************************************************************************)
(* C27: within a wallet run every task goes idle, running, then completed  *)
(* or failed: a task leaves idle only by being started, a running task     *)
(* stays running or ends, and a completed or failed task keeps its status. *)
(***************************************************************************)
\* the status steps of one task within a run; a stage that starts and ends
\* within one step goes from idle to its end
StatusSteps ==
    {<<"idle", "idle">>, <<"idle", "running">>, <<"idle", "completed">>,
     <<"idle", "failed">>, <<"running", "running">>, <<"running", "completed">>,
     <<"running", "failed">>, <<"completed", "completed">>, <<"failed", "failed">>}

\* the step creates the WalletProcessor of the next wallet, with new tasks
CreatesProcessor == pc = "none" /\ pc' = "check_blacklist"

C30_RecordsNotShared ==
    [][ /\ \A k \in DOMAIN results :
              k \in DOMAIN results' /\ results'[k] = results[k]
        /\ CreatesProcessor =>
              result' = DefaultsBut(wallets[Len(results) + 1], FALSE)
        /\ pc' # "none" => result'.wallet = wallet_address'
        /\ (pc = "return" /\ pc' = "none") =>
              results' = results \o <<result>>
      ]_vars

C30_Witness ==
    /\ Len(results) = 1
    /\ Len(wallets) = 2
    /\ results[1].wallet = "WBlack"
    /\ results[1].cnft = TRUE
    /\ results[1].first_tx # NA
    /\ pc = "return"
    /\ wallet_address = "WBad"
    /\ result = DefaultsBut("WBad", FALSE)

(***************************************************************************)
(* C26: every batch terminates with its completion message: when every     *)
(* external call returns, each wallet's run comes to its end and the batch *)
(* eventually sends the completion message.                                *)
(***************************************************************************)
C26_BatchSendsCompletion == <>(batch_pc = "done")

(***************************************************************************)
(* C23: a progress callback that raises never fails the pipeline: no       *)
(* exception of the callback leaves process(), and the stage loop in which *)
(* it raised still makes its pass over every item.                         *)
(***************************************************************************)
\* a stage loop and the list it runs over
LoopList ==
    CASE pc = "filter_loop" -> transactions
      [] pc = "extract_loop" -> meteora_transactions
      [] pc = "fees_loop" -> pool_addresses

C23_ObserverFailureIsHarmless ==
    [][ /\ (pc' = "raised" /\ pc # "raised") => pc = "check_cnft_handle"
        /\ (pc \in {"filter_loop", "extract_loop", "fees_loop"} /\ pc' # pc)
              => idx = Len(LoopList)
      ]_vars

\* the callback raises in the middle of the fee loop, which then skips a pool
C23_LoopCutShort ==
    [][ (pc = "fees_loop" /\ pc' # pc) => idx = Len(pool_addresses) ]_vars

(***************************************************************************)
(* C28: with two or more Helius keys configured, every retry of the asset  *)
(* search uses a key other than the key of the attempt just before it,     *)
(* whatever the other batches of the same user and of other users do in    *)
(* between.                                                                *)
(***************************************************************************)
C28_RetryTakesAnotherKey ==
    [][ \A t \in Tasks :
          (/\ api_pc[t] = "attempt"
           /\ api_retry_count'[t] = api_retry_count[t] + 1
           /\ Len(helius_api_keys) >= 2)
             => helius_api_key'[t] # helius_api_key[t]
      ]_vars

(***************************************************************************)
(* C29: a lookup reads and writes the counters and the times of use in one *)
(* step, and two different users who make their first lookups one after    *)
(* the other get different indices in every list of two or more endpoints. *)
(***************************************************************************)
\* the step is a call of get_endpoints_for_user
IsLookup == lookups' = lookups + 1

\* the step is the second of two first lookups of different users in a row
TwoFirstLookups ==
    /\ IsLookup
    /\ last_lookup.first
    /\ last_lookup'.first
    /\ last_lookup'.user # last_lookup.user

IndicesDiffer ==
    /\ Len(rpc_urls) >= 2 => last_lookup'.rpc_index # last_lookup.rpc_index
    /\ Len(helius_api_keys) >= 2 =>
          last_lookup'.helius_index # last_lookup.helius_index

\* a call leaves the user's counter at the indices it returns and the times
\* of use of exactly those two endpoints at the time it read; no other step
\* writes a time of use, or a counter other than by releasing it
WholeLookups ==
    /\ IsLookup =>
          LET l == last_lookup'
          IN  /\ user_counters' =
                    [user_counters EXCEPT ![l.user] = <<l.rpc_index, l.helius_index>>]
              /\ last_used'.rpc =
                    [last_used.rpc EXCEPT ![l.rpc_index] = l.current_time]
              /\ last_used'.helius =
                    [last_used.helius EXCEPT ![l.helius_index] = l.current_time]
    /\ ~IsLookup =>
          /\ last_used' = last_used
          /\ \A u \in Users : user_counters'[u] \in {user_counters[u], NoCounter}

C29_FirstLookupsDiffer ==
    [][ WholeLookups /\ (TwoFirstLookups => IndicesDiffer) ]_vars

\* the same when the first of the two lookups read a time later than every
\* recorded time of use
C29_FirstLookupsDifferAfterLaterReading ==
    [][ WholeLookups /\ (TwoFirstLookups /\ last_lookup.latest => IndicesDiffer)
      ]_vars

C29_Witness ==
    /\ lookups = 2
    /\ Len(helius_api_keys) >= 2
    /\ Len(rpc_urls) >= 2
    /\ last_lookup.first
    /\ last_lookup.user = "u2"
    /\ user_counters["u1"] # NoCounter
    /\ user_counters["u1"][2] # last_lookup.helius_index
    /\ user_counters["u1"][1] # last_lookup.rpc_index

(***************************************************************************)
(* C35: when process() returns, each of the wallet's eight tasks is        *)
(* completed or failed; none is idle or running.                           *)
(***************************************************************************)
C35_AllTasksTerminalAtReturn ==
    pc = "return" =>
        /\ DOMAIN tasks = Range(TaskNames)
        /\ Cardinality(DOMAIN tasks) = 8
        /\ \A n \in DOMAIN tasks : tasks[n].status \in {"completed", "failed"}

C35_Witness ==
    /\ pc = "return"
    /\ Status("get_transactions") = "failed"
    /\ Status("check_cnft") = "completed"
    /\ Status("get_pool_fees") = "completed"
    /\ wallet_address = "WRich"

(***************************************************************************)
(* C36: at every moment of a wallet run at most one task is running, and   *)
(* no progress text lists more than one running stage.                     *)
(***************************************************************************)
RunningTasks == {n \in Range(TaskNames) : tasks[n].status = "running"}

C36_AtMostOneRunning ==
    /\ Cardinality(RunningTasks) <= 1
    /\ Len(progress.lines) <= 1
    /\ \A k \in DOMAIN progress.lines : progress.lines[k].task_name \in DisplayedTasks

C36_Witness ==
    /\ pc = "fees_loop"
    /\ idx = 2
    /\ RunningTasks = {"get_pool_fees"}
    /\ Len(progress.lines) = 1
    /\ progress.lines[1] = [task_name |-> "get_pool_fees", current |-> 2, total |-> 2]

(***************************************************************************)
(* C37: the activity fields of a record agree: first_tx is "N/A" exactly   *)
(* when active_weeks is 0, exactly when active_months is 0; with at least  *)
(* one protocol transaction both counts are at least 1 and at most the     *)
(* number of protocol transactions.                                        *)
(***************************************************************************)
ActivityAgrees(r) ==
    /\ r.first_tx = NA <=> r.active_weeks = 0
    /\ r.active_weeks = 0 <=> r.active_months = 0

\* both activity stages have run for the wallet
ActivityComputed ==
    pc \in {"extract_pool_addresses", "extract_loop", "get_pool_fees",
            "fees_loop", "return"}

C37_ActivityFieldsAgree ==
    /\ \A k \in DOMAIN results : ActivityAgrees(results[k])
    /\ ActivityComputed =>
          LET n == Len(meteora_transactions)
          IN  /\ ActivityAgrees(result)
              /\ n = 0 => result.active_weeks = 0
              /\ n >= 1 => /\ result.active_weeks \in 1..n
                           /\ result.active_months \in 1..n

C37_Witness ==
    /\ pc = "return"
    /\ Len(meteora_transactions) = 2
    /\ result.active_weeks = 1
    /\ result.active_months = 2
    /\ result.first_tx # NA

(***************************************************************************)
(* C31: in the filter, extraction and fee stages the counter shown by the  *)
(* successive progress texts of a stage never decreases and is the number  *)
(* of items passed over, it stays between 0 and the total, and the         *)
(* percentage shown stays between 0 and 100.                               *)
(***************************************************************************)
\* the step hands update_callback a text with a line for the running stage
ShowsLine == progress' # progress /\ Len(progress'.lines) = 1

C31_ProgressFollowsItems ==
    [][ /\ \A k \in DOMAIN progress'.lines :
              LET l == progress'.lines[k]
              IN  /\ 0 <= l.current
                  /\ l.current <= l.total
                  /\ percent(l) \in 0..100
        /\ (ShowsLine /\ pc \in {"filter_loop", "extract_loop", "fees_loop"})
              => progress'.lines[1].current = idx'
        /\ (ShowsLine /\ Len(progress.lines) = 1
              /\ progress.lines[1].task_name = progress'.lines[1].task_name)
              => progress'.lines[1].current >= progress.lines[1].current
      ]_vars

\* the fee loop has shown 2/3 after the second pool and shows 3/3 now
C31_Witness ==
    /\ pc = "fees_loop"
    /\ idx = 3
    /\ Len(pool_addresses) = 3
    /\ Len(progress.lines) = 1
    /\ progress.lines[1] = [task_name |-> "get_pool_fees", current |-> 3, total |-> 3]
    /\ percent(progress.lines[1]) = 100

(***************************************************************************)
(* C34: cnft becomes true only in handling an answer that carries an item  *)
(* list in which some asset names the known creator in its top-level       *)
(* creators or in content.creators; a name match or a keyword match alone, *)
(* or a failed request, never sets it.                                     *)
(***************************************************************************)
C34_CnftOnlyWithCreator ==
    [][ /\ (result'.cnft = TRUE /\ result.cnft = FALSE) =>
              /\ HoldsItems
              /\ \E k \in DOMAIN data.items : CreatorAt(data.items[k]) # {}
        /\ (pc = "check_cnft_handle" /\ data.kind # "items") =>
              result'.cnft = FALSE
        /\ (pc = "return" /\ pc' = "none") =>
              results'[Len(results')].cnft = result.cnft
      ]_vars

\* an asset with the name and the keyword but not the creator, followed by
\* one with the creator at content.creators and the name
C34_Witness ==
    /\ HoldsItems
    /\ Len(data.items) = 2
    /\ NameMatches(data.items[1]) /\ HasKeyword(data.items[1])
    /\ CreatorAt(data.items[1]) = {}
    /\ CreatorAt(data.items[2]) = {"content.creators"}
    /\ NameMatches(data.items[2])
    /\ CnftScan(data.items) = "found"

(***************************************************************************)
(* C32: given the same wallet, blacklist and answers of the outside world, *)
(* process_wallet and WalletProcessor.process return the same blacklist,   *)
(* first_tx, active_weeks, active_months, total_fees and pools_with_fees.  *)
(***************************************************************************)
Compared(r) ==
    <<r.blacklist, r.first_tx, r.active_weeks, r.active_months, r.total_fees,
      r.pools_with_fees>>

C32_SameMetrics ==
    cmp_pc = "done" => Compared(bot_run.result) = Compared(cli_run.result)

\* the fields that do not come from the pools agree in every run
C32_SameActivity ==
    cmp_pc = "done" =>
        /\ bot_run.result.blacklist = cli_run.result.blacklist
        /\ bot_run.result.first_tx = cli_run.result.first_tx
        /\ bot_run.result.active_weeks = cli_run.result.active_weeks
        /\ bot_run.result.active_months = cli_run.result.active_months
        /\ cli_run.pools \subseteq bot_run.pools

(***************************************************************************)
(* C33: in every interleaving of batches, two overlapping batches of one   *)
(* user included, each batch runs its final cleanup without raising,       *)
(* processes exactly the wallet list it was submitted with, and once no    *)
(* batch of a user is running neither user_tasks nor                       *)
(* api_manager.user_counters holds an entry for that user.                 *)
(***************************************************************************)
Begun(t) == api_pc[t] \in {"attempt", "done", "KeyError", "returned"}

RunningBatch(t) == api_pc[t] \in {"created", "attempt"}

C33_CleanupRaises == \E t \in Tasks : api_pc[t] = "KeyError"

C33_ListNotProcessed == \E t \in Tasks : Begun(t) /\ user_task[t] # t

C33_NothingLeftBehind ==
    \A u \in Users :
        (\A t \in Tasks : Owner[t] = u => ~RunningBatch(t)) =>
            user_tasks[u] = NoTask /\ user_counters[u] = NoCounter

C33_BatchesCleanUp ==
    /\ ~C33_CleanupRaises
    /\ ~C33_ListNotProcessed
    /\ C33_NothingLeftBehind

\* a batch that begins with its entry in place works on its own wallet list
C33_OwnListWhenBegun ==
    \A t \in Tasks : user_task[t] \in {NoTask, t}

====
